---------------------------- MODULE Spec2Model ----------------------------
(***************************************************************************)
(* A model of the nand2tetris toolchain of this repository: the Hack       *)
(* assembler (Assembler, Parser, Converter) and the VM translator          *)
(* (VMTranslator, VMParser, VMCodeWriter).                                 *)
(*                                                                         *)
(* Text is modelled as it is in the program: a string is a sequence of     *)
(* one-character strings, and split, strip, format and int are operators   *)
(* on such sequences.                                                      *)
(***************************************************************************)
EXTENDS Integers, Sequences, FiniteSets, TLC

VARIABLES
    a_code,        \* Parser._code: the assembly lines given to Assembler(code)
    p_index,       \* Parser._index: number of lines fetched so far
    p_current,     \* Parser._current: the fetched line, comment and blanks removed
    symbol_table,  \* Assembler.symbol_table: name -> 15-character bit string
    l_table,       \* _create_symbol_table's local _symbol_table: name -> int
    rom_address,   \* _create_symbol_table's local rom_address
    ram_address,   \* _convert_code's local ram_address
    res,           \* _convert_code's local res
    a_pc,          \* position inside assemble()
    a_result,      \* the list assemble() returned (<<>> before it returns)
    a_err,         \* the exception that left assemble(), if any
    a_returns,     \* the lists the assemble() calls have returned, in order
    w_code,        \* VMCodeWriter._code: the assembly lines written so far
    w_func_count,  \* VMCodeWriter._func_count
    w_arg_count,   \* VMCodeWriter._arg_count
    w_line_num,    \* VMCodeWriter.line_num
    w_file_name,   \* VMCodeWriter.file_name
    vp_code,       \* VMParser._code: the lines of the file being translated
    vp_index,      \* VMParser._index
    vp_current,    \* VMParser._current
    t_input,       \* what translate(path) finds at path
    t_file,        \* number of files of the input already translated
    t_pc,          \* position inside translate()
    t_result,      \* the list translate() returned (<<>> before it returns)
    t_err,         \* the exception that left translate(), if any
    plan,          \* the VMCodeWriter calls a direct client makes, in order
    w_calls,       \* number of calls of the plan already made
    m_rom,         \* Hack machine: the instructions loaded, labels removed
    m_sym,         \* Hack machine: symbol -> address, as the loader resolved it
    m_A,           \* Hack machine: A register
    m_D,           \* Hack machine: D register
    m_ram,         \* Hack machine: data memory
    m_ram0,        \* Hack machine: data memory when the program started
    m_pc,          \* Hack machine: program counter
    m_state,       \* Hack machine: off, running, left, or fault
    j_token_list,  \* JackCompileEngine._token_list
    j_line_list,   \* JackCompileEngine._line_list
    j_index,       \* JackCompileEngine._index
    j_code,        \* JackCompileEngine._code: the XML lines written
    j_class_name,  \* JackCompileEngine._class_name
    vw_code,       \* VMWriter._code: the VM lines written so far
    class_table,   \* SymbolTable._class_table: name -> TableElement
    subroutine_table, \* SymbolTable._subroutine_table: name -> TableElement
    number_table,  \* SymbolTable._number_table: kind -> next number
    j_input,       \* the token lists a client passes to compile(), in order
    j_calls,       \* number of compile() calls already made
    j_result,      \* the list the last compile() returned (<<>> if none)
    j_err,         \* the exception that left the last compile(), if any
    tk_input,      \* the lines a client is going to assign to code
    tk_code,       \* JackTokenizer._code: the lines of the Jack file
    tk_row_num,    \* JackTokenizer._row_num
    tk_column_num, \* JackTokenizer._column_num
    tk_row,        \* JackTokenizer._row
    tk_column,     \* JackTokenizer._column
    tk_current_line, \* JackTokenizer._current_line
    tk_current_token, \* JackTokenizer._current_token
    tk_in_comment, \* JackTokenizer._in_comment
    tk_client,     \* who drives the tokenizer: JackAnalyzer, or a direct client
    tk_pc,         \* position of the client: new, loop or done
    tk_token_list, \* the client's list of (line, token) pairs
    tk_calls,      \* number of advance() calls the client has made
    tk_err,        \* the exception that ended the client's loop, if any
    st_op          \* the last SymbolTable method a direct client has called

asm_vars == <<a_code, p_index, p_current, symbol_table, l_table, rom_address,
              ram_address, res, a_pc, a_result, a_err, a_returns>>

writer_vars == <<w_code, w_func_count, w_arg_count, w_line_num, w_file_name>>

translator_vars == <<vp_code, vp_index, vp_current, t_input, t_file, t_pc,
                     t_result, t_err>>

machine_vars == <<m_rom, m_sym, m_A, m_D, m_ram, m_ram0, m_pc, m_state>>

vm_vars == <<writer_vars, translator_vars, plan, w_calls, machine_vars>>

jack_vars == <<j_token_list, j_line_list, j_index, j_code, j_class_name, vw_code,
               class_table, subroutine_table, number_table, j_input, j_calls,
               j_result, j_err>>

tok_vars == <<tk_input, tk_code, tk_row_num, tk_column_num, tk_row, tk_column,
              tk_current_line, tk_current_token, tk_in_comment, tk_client, tk_pc,
              tk_token_list, tk_calls, tk_err>>

vars == <<asm_vars, vm_vars, jack_vars, tok_vars, st_op>>

-----------------------------------------------------------------------------
(* Text helpers: Python's str operations on sequences of characters.       *)

Digits == {"0", "1", "2", "3", "4", "5", "6", "7", "8", "9"}

Whitespace == {" ", "\t", "\n", "\r"}

DigitVal(c) ==
    CASE c = "0" -> 0 [] c = "1" -> 1 [] c = "2" -> 2 [] c = "3" -> 3
      [] c = "4" -> 4 [] c = "5" -> 5 [] c = "6" -> 6 [] c = "7" -> 7
      [] c = "8" -> 8 [] c = "9" -> 9

DigitChar(d) ==
    CASE d = 0 -> "0" [] d = 1 -> "1" [] d = 2 -> "2" [] d = 3 -> "3"
      [] d = 4 -> "4" [] d = 5 -> "5" [] d = 6 -> "6" [] d = 7 -> "7"
      [] d = 8 -> "8" [] d = 9 -> "9"

\* all("0" <= c <= "9" for c in s): true of the empty string
IsAllDigits(s) == \A i \in 1..Len(s) : s[i] \in Digits

RECURSIVE StrToInt(_)
\* int(s) for a non-empty string of decimal digits
StrToInt(s) ==
    IF Len(s) = 0 THEN 0
    ELSE 10 * StrToInt(SubSeq(s, 1, Len(s) - 1)) + DigitVal(s[Len(s)])

RECURSIVE IntToStr(_)
\* str(n), f"{n}" for n >= 0
IntToStr(n) ==
    IF n < 10 THEN <<DigitChar(n)>>
    ELSE IntToStr(n \div 10) \o <<DigitChar(n % 10)>>

RECURSIVE FormatBin(_)
\* format(n, 'b') for n >= 0
FormatBin(n) ==
    IF n < 2 THEN <<DigitChar(n)>>
    ELSE FormatBin(n \div 2) \o <<DigitChar(n % 2)>>

RECURSIVE PadLeft(_, _, _)
\* f"{s:c>w}": s padded on the left with c up to width w, never cut
PadLeft(s, c, w) == IF Len(s) >= w THEN s ELSE PadLeft(<<c>> \o s, c, w)

RECURSIVE LStrip(_, _)
LStrip(s, cs) ==
    IF Len(s) > 0 /\ s[1] \in cs THEN LStrip(Tail(s), cs) ELSE s

RECURSIVE RStrip(_, _)
RStrip(s, cs) ==
    IF Len(s) > 0 /\ s[Len(s)] \in cs THEN RStrip(SubSeq(s, 1, Len(s) - 1), cs)
    ELSE s

\* s.strip(cs)
StripChars(s, cs) == RStrip(LStrip(s, cs), cs)

\* s.strip()
Strip(s) == StripChars(s, Whitespace)

\* whether sep occurs in s at position i
OccursAt(s, sep, i) ==
    /\ i + Len(sep) - 1 <= Len(s)
    /\ SubSeq(s, i, i + Len(sep) - 1) = sep

\* sep in s
Contains(s, sep) == \E i \in 1..Len(s) : OccursAt(s, sep, i)

RECURSIVE Split(_, _)
\* s.split(sep) for a non-empty sep: the pieces between the occurrences of sep
Split(s, sep) ==
    IF ~Contains(s, sep) THEN <<s>>
    ELSE LET i == CHOOSE k \in 1..Len(s) :
                      /\ OccursAt(s, sep, k)
                      /\ \A j \in 1..(k - 1) : ~OccursAt(s, sep, j)
         IN  <<SubSeq(s, 1, i - 1)>>
                 \o Split(SubSeq(s, i + Len(sep), Len(s)), sep)

Last(q) == q[Len(q)]

-----------------------------------------------------------------------------
(* The assembler's Parser (src/assembler/parser.py).                        *)

invalid == 0
a_command == 1
c_command == 2
l_command == 3

comp_cand ==
    {<<"0">>, <<"1">>, <<"-", "1">>, <<"D">>,
     <<"A">>, <<"!", "D">>, <<"!", "A">>, <<"-", "D">>,
     <<"-", "A">>, <<"D", "+", "1">>, <<"A", "+", "1">>, <<"D", "-", "1">>,
     <<"A", "-", "1">>, <<"D", "+", "A">>, <<"D", "-", "A">>, <<"A", "-", "D">>,
     <<"D", "&", "A">>, <<"D", "|", "A">>, <<"M">>, <<"!", "M">>,
     <<"-", "M">>, <<"M", "+", "1">>, <<"M", "-", "1">>, <<"D", "+", "M">>,
     <<"D", "-", "M">>, <<"M", "-", "D">>, <<"D", "&", "M">>, <<"D", "|", "M">>}

dest_cand ==
    {<<"M">>, <<"D">>, <<"M", "D">>, <<"A">>,
     <<"A", "M">>, <<"A", "D">>, <<"A", "M", "D">>}

jump_cand ==
    {<<"J", "G", "T">>, <<"J", "E", "Q">>, <<"J", "G", "E">>, <<"J", "L", "T">>,
     <<"J", "N", "E">>, <<"J", "L", "E">>, <<"J", "M", "P">>}

\* Parser.advance's text: "D=A  // comment" -> "D=A"
CleanLine(line) == Strip(Split(line, <<"/", "/">>)[1])

\* Parser.command_type
command_type(cur) ==
    IF Len(cur) = 0 THEN invalid
    ELSE IF cur[1] = "@" THEN a_command
    ELSE IF cur[1] = "(" /\ cur[Len(cur)] = ")" THEN l_command
    ELSE c_command

is_invalid(cur) == command_type(cur) = invalid
is_a_cmd(cur) == command_type(cur) = a_command
is_l_cmd(cur) == command_type(cur) = l_command
is_c_cmd(cur) == command_type(cur) = c_command

NoError == [exc |-> "none", what |-> "", arg |-> <<>>]

Raise(exc, what, arg) == [exc |-> exc, what |-> what, arg |-> arg]

\* The text Parser.symbol works on: the command without its @ ( ) decoration
SymbolText(cur) == StripChars(cur, {"@", "(", ")"})

\* The exception Parser.symbol raises on cur, NoError when it returns
symbol_error(cur) ==
    IF command_type(cur) # a_command /\ command_type(cur) # l_command
    THEN Raise("AttributeError", "Invalid command type", <<>>)
    ELSE IF Len(SymbolText(cur)) = 0
    THEN Raise("ValueError", "invalid literal for int()", <<>>)
    ELSE NoError

\* A symbol() that does not pad the binary text
symbol_NoPad(cur) ==
    LET s == SymbolText(cur)
    IN  IF IsAllDigits(s) THEN FormatBin(StrToInt(s)) ELSE s

\* Parser.symbol: a decimal constant becomes its binary text, at least 15 wide
symbol(cur) ==
    LET s == SymbolText(cur)
    IN  IF IsAllDigits(s) THEN PadLeft(FormatBin(StrToInt(s)), "0", 15) ELSE s

\* Parser.comp
CompText(cur) == Strip(Split(Last(Split(cur, <<"=">>)), <<";">>)[1])

comp_error(cur) ==
    IF command_type(cur) # c_command
    THEN Raise("AttributeError", "Invalid command type", <<>>)
    ELSE IF CompText(cur) \notin comp_cand
    THEN Raise("ValueError", "Unknown comp command", CompText(cur))
    ELSE NoError

comp(cur) == CompText(cur)

\* Parser.dest
DestText(cur) == Strip(Split(cur, <<"=">>)[1])

dest_error(cur) ==
    IF command_type(cur) # c_command
    THEN Raise("AttributeError", "Invalid command type", <<>>)
    ELSE IF Contains(cur, <<"=">>) /\ DestText(cur) \notin dest_cand
    THEN Raise("ValueError", "Unknown dest command", DestText(cur))
    ELSE NoError

dest(cur) == IF ~Contains(cur, <<"=">>) THEN <<"n", "u", "l", "l">> ELSE DestText(cur)

\* Parser.jump
JumpText(cur) == Strip(Split(cur, <<";">>)[2])

jump_error(cur) ==
    IF command_type(cur) # c_command
    THEN Raise("AttributeError", "Invalid command type", <<>>)
    ELSE IF Contains(cur, <<";">>) /\ JumpText(cur) \notin jump_cand
    THEN Raise("ValueError", "Unknown jump command", JumpText(cur))
    ELSE NoError

jump(cur) == IF ~Contains(cur, <<";">>) THEN <<"n", "u", "l", "l">> ELSE JumpText(cur)

-----------------------------------------------------------------------------
(* Converter (src/assembler/code.py).                                       *)

comp_table ==
       (<<"0">> :> <<"1", "0", "1", "0", "1", "0">>)
    @@ (<<"1">> :> <<"1", "1", "1", "1", "1", "1">>)
    @@ (<<"-", "1">> :> <<"1", "1", "1", "0", "1", "0">>)
    @@ (<<"D">> :> <<"0", "0", "1", "1", "0", "0">>)
    @@ (<<"A">> :> <<"1", "1", "0", "0", "0", "0">>)
    @@ (<<"!", "D">> :> <<"0", "0", "1", "1", "0", "1">>)
    @@ (<<"!", "A">> :> <<"1", "1", "0", "0", "0", "1">>)
    @@ (<<"-", "D">> :> <<"0", "0", "1", "1", "1", "1">>)
    @@ (<<"-", "A">> :> <<"1", "1", "0", "0", "1", "1">>)
    @@ (<<"D", "+", "1">> :> <<"0", "1", "1", "1", "1", "1">>)
    @@ (<<"A", "+", "1">> :> <<"1", "1", "0", "1", "1", "1">>)
    @@ (<<"D", "-", "1">> :> <<"0", "0", "1", "1", "1", "0">>)
    @@ (<<"A", "-", "1">> :> <<"1", "1", "0", "0", "1", "0">>)
    @@ (<<"D", "+", "A">> :> <<"0", "0", "0", "0", "1", "0">>)
    @@ (<<"D", "-", "A">> :> <<"0", "1", "0", "0", "1", "1">>)
    @@ (<<"A", "-", "D">> :> <<"0", "0", "0", "1", "1", "1">>)
    @@ (<<"D", "&", "A">> :> <<"0", "0", "0", "0", "0", "0">>)
    @@ (<<"D", "|", "A">> :> <<"0", "1", "0", "1", "0", "1">>)
    @@ (<<"M">> :> <<"1", "1", "0", "0", "0", "0">>)
    @@ (<<"!", "M">> :> <<"1", "1", "0", "0", "0", "1">>)
    @@ (<<"-", "M">> :> <<"1", "1", "0", "0", "1", "1">>)
    @@ (<<"M", "+", "1">> :> <<"1", "1", "0", "1", "1", "1">>)
    @@ (<<"M", "-", "1">> :> <<"1", "1", "0", "0", "1", "0">>)
    @@ (<<"D", "+", "M">> :> <<"0", "0", "0", "0", "1", "0">>)
    @@ (<<"D", "-", "M">> :> <<"0", "1", "0", "0", "1", "1">>)
    @@ (<<"M", "-", "D">> :> <<"0", "0", "0", "1", "1", "1">>)
    @@ (<<"D", "&", "M">> :> <<"0", "0", "0", "0", "0", "0">>)
    @@ (<<"D", "|", "M">> :> <<"0", "1", "0", "1", "0", "1">>)

dest_table ==
       (<<"n", "u", "l", "l">> :> <<"0", "0", "0">>)
    @@ (<<"M">> :> <<"0", "0", "1">>)
    @@ (<<"D">> :> <<"0", "1", "0">>)
    @@ (<<"M", "D">> :> <<"0", "1", "1">>)
    @@ (<<"A">> :> <<"1", "0", "0">>)
    @@ (<<"A", "M">> :> <<"1", "0", "1">>)
    @@ (<<"A", "D">> :> <<"1", "1", "0">>)
    @@ (<<"A", "M", "D">> :> <<"1", "1", "1">>)

jump_table ==
       (<<"n", "u", "l", "l">> :> <<"0", "0", "0">>)
    @@ (<<"J", "G", "T">> :> <<"0", "0", "1">>)
    @@ (<<"J", "E", "Q">> :> <<"0", "1", "0">>)
    @@ (<<"J", "G", "E">> :> <<"0", "1", "1">>)
    @@ (<<"J", "L", "T">> :> <<"1", "0", "0">>)
    @@ (<<"J", "N", "E">> :> <<"1", "0", "1">>)
    @@ (<<"J", "L", "E">> :> <<"1", "1", "0">>)
    @@ (<<"J", "M", "P">> :> <<"1", "1", "1">>)

Converter_comp(mnemonic) == comp_table[mnemonic]
Converter_dest(mnemonic) == dest_table[mnemonic]
Converter_jump(mnemonic) == jump_table[mnemonic]

-----------------------------------------------------------------------------
(* Assembler (src/nnttpy/assembler/assembler.py).                           *)

predefined_symbols ==
       (<<"S", "P">> :> 0)
    @@ (<<"L", "C", "L">> :> 1)
    @@ (<<"A", "R", "G">> :> 2)
    @@ (<<"T", "H", "I", "S">> :> 3)
    @@ (<<"T", "H", "A", "T">> :> 4)
    @@ (<<"S", "C", "R", "E", "E", "N">> :> 16384)
    @@ (<<"K", "B", "D">> :> 24576)

ram_predefined == 16

\* f"{format(value, 'b'):0>15}"
Bin15(value) == PadLeft(FormatBin(value), "0", 15)

EmptyTable == [k \in {} |-> 0]

\* _create_symbol_table, lines 43-47: the predefined symbols and R0..R15
InitialSymbols ==
    LET rn == {<<"R">> \o IntToStr(n) : n \in 0..(ram_predefined - 1)}
    IN  [k \in DOMAIN predefined_symbols \cup rn |->
            IF k \in rn THEN StrToInt(Tail(k)) ELSE predefined_symbols[k]]

\* Parser.has_more_commands
has_more_commands == p_index < Len(a_code)

\* How many times a client calls assemble() on one Assembler at most
MaxAssembleCalls == 2

\* assemble() is entered: _create_symbol_table sets up its locals
Assemble ==
    /\ a_pc = "idle"
    /\ l_table' = InitialSymbols
    /\ rom_address' = 0
    /\ a_pc' = "pass1"
    /\ UNCHANGED <<a_code, p_index, p_current, symbol_table, ram_address,
                   res, a_result, a_err, a_returns>>
    /\ UNCHANGED <<vm_vars, jack_vars, tok_vars, st_op>>

\* assemble() is entered once more after it has returned: the parser is
\* where pass 2 of the call before left it
AssembleAgain ==
    /\ a_pc = "returned"
    /\ Len(a_returns) < MaxAssembleCalls
    /\ l_table' = InitialSymbols
    /\ rom_address' = 0
    /\ a_pc' = "pass1"
    /\ UNCHANGED <<a_code, p_index, p_current, symbol_table, ram_address,
                   res, a_result, a_err, a_returns>>
    /\ UNCHANGED <<vm_vars, jack_vars, tok_vars, st_op>>

\* A pass 1 that also counts L-commands
NextRomAddress_CountsLabels(cur, rom) ==
    IF ~is_invalid(cur) THEN rom + 1 ELSE rom

\* rom_address after the current command (lines 52-53)
NextRomAddress(cur, rom) ==
    IF is_a_cmd(cur) \/ is_c_cmd(cur) THEN rom + 1 ELSE rom

\* A pass 1 that rebinds a label defined twice
LabelIsNew_Always(sym, table) == TRUE

\* Whether the label of the current L-command may be bound (line 56)
LabelIsNew(sym, table) == sym \notin DOMAIN table

\* _symbol_table after the current command (lines 54-57)
BindLabel(cur, table, rom) ==
    IF ~(is_a_cmd(cur) \/ is_c_cmd(cur)) /\ is_l_cmd(cur)
    THEN [k \in DOMAIN table \cup {symbol(cur)} |->
            IF k = symbol(cur) THEN rom ELSE table[k]]
    ELSE table

\* The exception one iteration of pass 1 raises on the current command
Pass1Error(cur, table) ==
    IF ~is_l_cmd(cur) THEN NoError
    ELSE IF symbol_error(cur).exc # "none" THEN symbol_error(cur)
    ELSE IF ~LabelIsNew(symbol(cur), table)
    THEN Raise("ValueError", "Duplicated label symbol", symbol(cur))
    ELSE NoError

\* self.symbol_table after lines 67-68
ConvertTable(old, table) ==
    [k \in DOMAIN old \cup DOMAIN table |->
        IF k \in DOMAIN table THEN Bin15(table[k]) ELSE old[k]]

\* One iteration of the loop of _create_symbol_table (lines 51-64); the
\* iteration whose advance() raises RuntimeError leaves the loop and runs
\* lines 67-68.
CreateSymbolTableStep ==
    /\ a_pc = "pass1"
    /\ LET e == Pass1Error(p_current, l_table)
       IN  IF e.exc # "none"
           THEN /\ a_pc' = "raised_pass1"
                /\ a_err' = e
                /\ UNCHANGED <<a_code, p_index, p_current, symbol_table,
                               l_table, rom_address, ram_address, res,
                               a_result, a_returns>>
           ELSE /\ rom_address' = NextRomAddress(p_current, rom_address)
                /\ l_table' = BindLabel(p_current, l_table, rom_address)
                /\ IF has_more_commands
                   THEN /\ p_current' = CleanLine(a_code[p_index + 1])
                        /\ p_index' = p_index + 1
                        /\ UNCHANGED <<symbol_table, a_pc>>
                   ELSE /\ symbol_table' = ConvertTable(symbol_table, l_table')
                        /\ a_pc' = "pass2_begin"
                        /\ UNCHANGED <<p_current, p_index>>
                /\ UNCHANGED <<a_code, ram_address, res, a_result, a_err, a_returns>>
    /\ UNCHANGED <<vm_vars, jack_vars, tok_vars, st_op>>

\* _convert_code, lines 72-75: Parser.reset_index and the locals
ConvertCodeBegin ==
    /\ a_pc = "pass2_begin"
    /\ p_index' = 1
    /\ p_current' = CleanLine(a_code[1])
    /\ res' = <<>>
    /\ ram_address' = ram_predefined
    /\ a_pc' = "pass2"
    /\ UNCHANGED <<a_code, symbol_table, l_table, rom_address, a_result, a_err,
                   a_returns>>
    /\ UNCHANGED <<vm_vars, jack_vars, tok_vars, st_op>>

\* The exception one iteration of pass 2 raises on the current command
Pass2Error(cur) ==
    IF is_invalid(cur) \/ is_l_cmd(cur) THEN NoError
    ELSE IF is_c_cmd(cur)
    THEN IF comp_error(cur).exc # "none" THEN comp_error(cur)
         ELSE IF dest_error(cur).exc # "none" THEN dest_error(cur)
         ELSE jump_error(cur)
    ELSE symbol_error(cur)

\* A pass 2 that allocates on every use of a symbol
NeedsVariable_IgnoresTable(sym, table) == ~IsAllDigits(sym)

\* Whether the A-command's symbol needs a new RAM address (lines 89-90)
NeedsVariable(sym, table) == ~IsAllDigits(sym) /\ sym \notin DOMAIN table

\* self.symbol_table after an A-command (lines 89-93)
BindVariable(sym, table, ram) ==
    IF NeedsVariable(sym, table)
    THEN [k \in DOMAIN table \cup {sym} |->
            IF k = sym THEN Bin15(ram) ELSE table[k]]
    ELSE table

\* An a bit taken from the whole command instead of its comp part
ABit_FromLine(cur) == IF Contains(cur, <<"M">>) THEN <<"1">> ELSE <<"0">>

\* The a bit of a C-command (line 82)
ABit(cur) == IF Contains(comp(cur), <<"M">>) THEN <<"1">> ELSE <<"0">>

\* binary for a C-command (lines 81-85)
EncodeC(cur) ==
    <<"1", "1", "1">> \o ABit(cur) \o Converter_comp(comp(cur))
        \o Converter_dest(dest(cur)) \o Converter_jump(jump(cur))

\* binary for an A-command (lines 87-95), table being the table after line 93
EncodeA(cur, table) ==
    LET sym == symbol(cur)
    IN  <<"0">> \o (IF ~IsAllDigits(sym) THEN table[sym] ELSE sym)

\* One iteration of the loop of _convert_code (lines 76-106); the iteration
\* whose advance() raises RuntimeError returns res.
ConvertCodeStep ==
    /\ a_pc = "pass2"
    /\ LET e == Pass2Error(p_current)
           isA == ~(is_invalid(p_current) \/ is_l_cmd(p_current))
                     /\ ~is_c_cmd(p_current) /\ is_a_cmd(p_current)
           isC == ~(is_invalid(p_current) \/ is_l_cmd(p_current))
                     /\ is_c_cmd(p_current)
       IN  IF e.exc # "none"
           THEN /\ a_pc' = "raised_pass2"
                /\ a_err' = e
                /\ UNCHANGED <<a_code, p_index, p_current, symbol_table,
                               l_table, rom_address, ram_address, res,
                               a_result, a_returns>>
           ELSE /\ symbol_table' =
                     IF isA THEN BindVariable(symbol(p_current), symbol_table,
                                              ram_address)
                     ELSE symbol_table
                /\ ram_address' =
                     IF isA /\ NeedsVariable(symbol(p_current), symbol_table)
                     THEN ram_address + 1 ELSE ram_address
                /\ LET binary == IF isC THEN EncodeC(p_current)
                                 ELSE IF isA
                                 THEN EncodeA(p_current, symbol_table')
                                 ELSE <<>>
                       out == IF Len(binary) > 0 THEN Append(res, binary)
                              ELSE res
                   IN  /\ res' = out
                       /\ IF has_more_commands
                          THEN /\ p_current' = CleanLine(a_code[p_index + 1])
                               /\ p_index' = p_index + 1
                               /\ UNCHANGED <<a_pc, a_result, a_returns>>
                          ELSE /\ a_result' = out
                               /\ a_returns' = Append(a_returns, out)
                               /\ a_pc' = "returned"
                               /\ UNCHANGED <<p_current, p_index>>
                /\ UNCHANGED <<a_code, l_table, rom_address, a_err>>
    /\ UNCHANGED <<vm_vars, jack_vars, tok_vars, st_op>>

-----------------------------------------------------------------------------
(* VMCodeWriter (src/nnttpy/vmtranslator/code_writer.py): every method is   *)
(* an operator from the writer's _code to the _code it leaves.              *)

end_program == <<<<"(", "E", "N", "D", ")">>, <<"@", "E", "N", "D">>,
                 <<"0", ";", "J", "M", "P">>>>

op_table ==
       (<<"a", "d", "d">> :> "+")
    @@ (<<"s", "u", "b">> :> "-")
    @@ (<<"n", "e", "g">> :> "-")
    @@ (<<"e", "q">> :> "-")
    @@ (<<"g", "t">> :> "-")
    @@ (<<"l", "t">> :> "-")
    @@ (<<"a", "n", "d">> :> "&")
    @@ (<<"o", "r">> :> "|")
    @@ (<<"n", "o", "t">> :> "!")

jump_cmd == {<<"J", "G", "T">>, <<"J", "E", "Q">>, <<"J", "G", "E">>, <<"J", "L", "T">>,
             <<"J", "N", "E">>, <<"J", "L", "E">>, <<"J", "M", "P">>}

symbol_hash ==
       (<<"l", "o", "c", "a", "l">> :> <<"L", "C", "L">>)
    @@ (<<"a", "r", "g", "u", "m", "e", "n", "t">> :> <<"A", "R", "G">>)
    @@ (<<"t", "h", "i", "s">> :> <<"T", "H", "I", "S">>)
    @@ (<<"t", "h", "a", "t">> :> <<"T", "H", "A", "T">>)
    @@ (<<"p", "o", "i", "n", "t", "e", "r">> :> <<"T", "H", "I", "S">>)
    @@ (<<"t", "e", "m", "p">> :> <<"5">>)

\* _push_stack(constant): constant is "" when the argument is left out
push_stack(c, constant) ==
    c \o (IF Len(constant) > 0 THEN <<(<<"@">> \o constant), <<"D", "=", "A">>>> ELSE <<>>)
      \o <<<<"@", "S", "P">>, <<"A", "=", "M">>,
           <<"M", "=", "D">>>> \o <<<<"@", "S", "P">>, <<"M", "=", "M", "+", "1">>>>

\* _pop_stack(save_to_d)
pop_stack(c, save_to_d) ==
    c \o <<<<"@", "S", "P">>, <<"M", "=", "M", "-", "1">>,
           <<"A", "=", "M">>>> \o (IF save_to_d THEN <<<<"D", "=", "M">>>> ELSE <<>>)

\* The text after the label prefix: f".{self.file_name}.{self.line_num}"
JumpSuffix(file_name, line_num) ==
    <<".">> \o file_name \o <<".">> \o IntToStr(line_num)

\* A _jump whose two outcomes are exchanged
jump_code_Exchanged(c, jump_type, file_name, line_num) ==
    LET t == <<"T", "R", "U", "E", "_", "J", "U", "M", "P">> \o JumpSuffix(file_name, line_num)
        f == <<"F", "A", "L", "S", "E", "_", "N", "O", "_", "J", "U", "M", "P">> \o JumpSuffix(file_name, line_num)
    IN  c \o << <<"@">> \o t, <<"D", ";">> \o jump_type, <<"D", "=", "-", "1">> >>
          \o << <<"@">> \o f, <<"0", ";", "J", "M", "P">> >>
          \o << <<"(">> \o t \o <<")">>, <<"D", "=", "0">>, <<"(">> \o f \o <<")">> >>

\* _jump(jump_type)
jump_code(c, jump_type, file_name, line_num) ==
    LET t == <<"T", "R", "U", "E", "_", "J", "U", "M", "P">> \o JumpSuffix(file_name, line_num)
        f == <<"F", "A", "L", "S", "E", "_", "N", "O", "_", "J", "U", "M", "P">> \o JumpSuffix(file_name, line_num)
    IN  c \o << <<"@">> \o t, <<"D", ";">> \o jump_type, <<"D", "=", "0">> >>
          \o << <<"@">> \o f, <<"0", ";", "J", "M", "P">> >>
          \o << <<"(">> \o t \o <<")">>, <<"D", "=", "-", "1">>, <<"(">> \o f \o <<")">> >>

\* write_arithmetic(command)
write_arithmetic(c, command, file_name, line_num) ==
    LET has_args == command \notin {<<"n", "e", "g">>, <<"n", "o", "t">>}
        c1 == pop_stack(c, TRUE)
        c2 == IF has_args THEN pop_stack(c1, FALSE) ELSE c1
        c3 == c2 \o << <<"D", "=">> \o (IF has_args THEN <<"M">> ELSE <<>>)
                          \o <<op_table[command]>> \o <<"D">> >>
        c4 == IF command = <<"e", "q">> THEN jump_code(c3, <<"J", "E", "Q">>,
                                                       file_name, line_num)
              ELSE IF command = <<"g", "t">>
              THEN jump_code(c3, <<"J", "G", "T">>, file_name, line_num)
              ELSE IF command = <<"l", "t">>
              THEN jump_code(c3, <<"J", "L", "T">>, file_name, line_num)
              ELSE c3
    IN  push_stack(c4, <<>>)

\* _load_static(index, push)
load_static(c, index, push, file_name) ==
    c \o << <<"@">> \o file_name \o <<".">> \o index >>
      \o (IF push THEN <<<<"D", "=", "M">>>> ELSE <<<<"M", "=", "D">>>>)

\* A _load_memory that stores D as soon as the address is computed
load_memory_NoStaging(c, segment, index, save_from_r13) ==
    c \o << <<"@">> \o index, <<"D", "=", "A">>, <<"@">> \o symbol_hash[segment] >>
      \o (IF segment \in {<<"t", "e", "m", "p">>,
                          <<"p", "o", "i", "n", "t", "e", "r">>} THEN <<<<"A", "D", "=", "A", "+", "D">>>> ELSE <<<<"A", "D", "=", "M", "+", "D">>>>)
      \o (IF save_from_r13 THEN <<<<"M", "=", "D">>>> ELSE <<<<"D", "=", "M">>>>)

\* _load_memory(segment, index, save_from_r13)
load_memory(c, segment, index, save_from_r13) ==
    c \o << <<"@">> \o index, <<"D", "=", "A">>, <<"@">> \o symbol_hash[segment] >>
      \o (IF segment \in {<<"t", "e", "m", "p">>, <<"p", "o", "i", "n", "t", "e", "r">>}
          THEN <<<<"A", "D", "=", "A", "+", "D">>>>
          ELSE <<<<"A", "D", "=", "M", "+", "D">>>>)
      \o (IF save_from_r13
          THEN <<<<"@", "1", "4">>, <<"M", "=", "D">>, <<"@", "1", "3">>, <<"D", "=", "M">>,
                 <<"@", "1", "4">>, <<"A", "=", "M">>, <<"M", "=", "D">>>>
          ELSE <<<<"D", "=", "M">>>>)

\* write_push(segment, index)
write_push(c, segment, index, file_name) ==
    IF segment = <<"c", "o", "n", "s", "t", "a", "n", "t">> THEN push_stack(c, index)
    ELSE IF segment = <<"s", "t", "a", "t", "i", "c">>
    THEN push_stack(load_static(c, index, TRUE, file_name), <<>>)
    ELSE push_stack(load_memory(c, segment, index, FALSE), <<>>)

\* write_pop(segment, index)
write_pop(c, segment, index, file_name) ==
    IF segment = <<"s", "t", "a", "t", "i", "c">>
    THEN load_static(pop_stack(c, TRUE), index, FALSE, file_name)
    ELSE load_memory(pop_stack(c, TRUE) \o <<<<"@", "1", "3">>, <<"M", "=", "D">>>>,
                     segment, index, TRUE)

\* _init_function(), the code part; it also adds 1 to _func_count
init_function(c, func_count, arg_count) ==
    LET c1 == push_stack(c \o << <<"@", "R", "E", "T", "U", "R", "N">> \o IntToStr(func_count), <<"D", "=", "A">> >>,
                         <<>>)
        c2 == push_stack(c1 \o <<<<"@", "L", "C", "L">>, <<"D", "=", "M">>>>, <<>>)
        c3 == push_stack(c2 \o <<<<"@", "A", "R", "G">>, <<"D", "=", "M">>>>, <<>>)
        c4 == push_stack(c3 \o <<<<"@", "T", "H", "I", "S">>, <<"D", "=", "M">>>>, <<>>)
        c5 == push_stack(c4 \o <<<<"@", "T", "H", "A", "T">>, <<"D", "=", "M">>>>, <<>>)
    IN  c5 \o << <<"@">> \o IntToStr(arg_count + 5) >>
           \o <<<<"D", "=", "A">>, <<"@", "S", "P">>, <<"D", "=", "M", "-", "D">>,
                <<"@", "A", "R", "G">>, <<"M", "=", "D">>, <<"S", "P">>, <<"D", "=", "M">>,
                <<"L", "C", "L">>, <<"M", "=", "D">>>>

\* write_init(), the code part; it sets _arg_count to 0 and adds 1 to
\* _func_count
write_init(c, func_count) ==
    init_function(c \o <<<<"@", "2", "5", "6">>, <<"D", "=", "A">>, <<"@", "S", "P">>,
                         <<"M", "=", "D">>>>, func_count, 0)
        \o << <<"@", "S", "y", "s", ".", "i", "n", "i", "t">>, <<"0", ";", "J", "M", "P">>,
              <<"(", "R", "E", "T", "U", "R", "N">> \o IntToStr((func_count + 1) - 1) \o <<")">> >>

\* write_label(label)
write_label(c, label) == c \o << <<"@">> \o label >>

\* write_goto(label)
write_goto(c, label) == c \o << <<"@">> \o label, <<"0", ";", "J", "M", "P">> >>

\* write_if(label)
write_if(c, label) == pop_stack(c, TRUE) \o << <<"@">> \o label, <<"D", ";", "J", "N", "E">> >>

\* write_call(segment, index), the code part; it sets _arg_count to
\* int(index) and adds 1 to _func_count
write_call(c, segment, index, func_count) ==
    init_function(c, func_count, StrToInt(index))
        \o << <<"@">> \o segment,
              <<"(", "R", "E", "T", "U", "R", "N">> \o IntToStr((func_count + 1) - 1) \o <<")">> >>

\* The code write_return emits for one restored register
RestoreRegister(c, register) ==
    c \o << <<"@", "L", "C", "L">>, <<"A", "M", "=", "M", "-", "1">>, <<"D", "=", "M">>,
           <<"@">> \o register, <<"M", "=", "D">> >>

\* A write_return that reads the return address after the return value is
\* stored
write_return_LateAddress(c) ==
    LET c1 == pop_stack(c, TRUE)
        c2 == c1 \o <<<<"@", "A", "R", "G">>, <<"A", "=", "M">>, <<"M", "=", "D">>, <<"D", "=", "A", "+", "1">>, <<"@", "S", "P">>, <<"M", "=", "D">>>>
        c3 == c2 \o <<<<"@", "5">>, <<"D", "=", "A">>, <<"@", "L", "C", "L">>, <<"A", "=", "M", "-", "D">>, <<"D", "=", "M">>, <<"@", "1", "5">>, <<"M", "=", "D">>>>
        c4 == RestoreRegister(RestoreRegister(RestoreRegister(
                  RestoreRegister(c3, <<"T", "H", "A", "T">>), <<"T", "H", "I", "S">>), <<"A", "R", "G">>), <<"L", "C", "L">>)
    IN  c4 \o <<<<"@", "1", "5">>, <<"A", "=", "M">>, <<"0", ";", "J", "M", "P">>>>

\* write_return()
write_return(c) ==
    LET c1 == pop_stack(c \o <<<<"@", "5">>, <<"D", "=", "A">>, <<"@", "L", "C", "L">>,
                               <<"A", "=", "M", "-", "D">>, <<"D", "=", "M">>,
                               <<"@", "1", "5">>, <<"M", "=", "D">>>>, TRUE)
        c2 == c1 \o <<<<"@", "A", "R", "G">>, <<"A", "=", "M">>, <<"M", "=", "D">>,
                      <<"D", "=", "A", "+", "1">>, <<"@", "S", "P">>, <<"M", "=", "D">>>>
        c3 == RestoreRegister(RestoreRegister(RestoreRegister(
                  RestoreRegister(c2, <<"T", "H", "A", "T">>), <<"T", "H", "I", "S">>), <<"A", "R", "G">>), <<"L", "C", "L">>)
    IN  c3 \o <<<<"@", "1", "5">>, <<"A", "=", "M">>, <<"0", ";", "J", "M", "P">>>>

RECURSIVE PushZeros(_, _)
\* The loop of write_function: n times @0, D=A and a push
PushZeros(c, n) ==
    IF n <= 0 THEN c ELSE PushZeros(push_stack(c \o <<<<"@", "0">>, <<"D", "=", "A">>>>,
                                               <<>>), n - 1)

\* write_function(func_name, num_locals)
write_function(c, func_name, num_locals) ==
    PushZeros(c \o << <<"@">> \o func_name >>, StrToInt(num_locals))

\* The code property: ValueError on empty code, else the code with
\* end_program appended unless it already ends with it
code_error(c) ==
    IF Len(c) = 0 THEN Raise("ValueError", "Empty code", <<>>) ELSE NoError

code_property(c) ==
    IF Len(c) < 3 \/ SubSeq(c, Len(c) - 2, Len(c)) # end_program
    THEN c \o end_program ELSE c

-----------------------------------------------------------------------------
(***************************************************************************)
(* VMParser (src/nnttpy/vmtranslator/vmparser.py).                          *)
(***************************************************************************)
c_invalid == 0
c_arithmetic == 1
c_push == 2
c_pop == 3
c_label == 4
c_goto == 5
c_if == 6
c_function == 7
c_return == 8
c_call == 9

\* The methods and properties class VMParser defines
VMParserAttributes ==
    {"code", "has_more_commands", "advance", "command_type", "is_invalid",
     "is_pushpop", "is_arithmetic", "command", "arg1", "arg2"}

\* VMParser.advance's text: the line without its comment and outer blanks
VMCleanLine(line) == Strip(Split(line, <<"/", "/">>)[1])

\* self._current.split(" ")
Words(cur) == Split(cur, <<" ">>)

ArithmeticNames == {<<"a", "d", "d">>, <<"s", "u", "b">>, <<"n", "e", "g">>, <<"e", "q">>,
                    <<"g", "t">>, <<"l", "t">>, <<"a", "n", "d">>, <<"o", "r">>,
                    <<"n", "o", "t">>}

\* The command_type property: the exception it raises, NoError when it returns
VMCommandTypeError(cur) ==
    IF Len(cur) > 0
       /\ Words(cur)[1] \notin ({<<"p", "u", "s", "h">>, <<"p", "o", "p">>,
                                 <<"l", "a", "b", "e", "l">>, <<"g", "o", "t", "o">>,
                                 <<"i", "f", "-", "g", "o", "t", "o">>,
                                 <<"f", "u", "n", "c", "t", "i", "o", "n">>,
                                 <<"r", "e", "t", "u", "r", "n">>,
                                 <<"c", "a", "l", "l">>} \cup ArithmeticNames)
    THEN Raise("ValueError", "Unexpected command", cur)
    ELSE NoError

\* The command_type property: the value it returns
VMCommandType(cur) ==
    LET command == Words(cur)[1]
    IN  CASE Len(cur) = 0 -> c_invalid
          [] Len(cur) > 0 /\ command = <<"p", "u", "s", "h">> -> c_push
          [] Len(cur) > 0 /\ command = <<"p", "o", "p">> -> c_pop
          [] Len(cur) > 0 /\ command = <<"l", "a", "b", "e", "l">> -> c_label
          [] Len(cur) > 0 /\ command = <<"g", "o", "t", "o">> -> c_goto
          [] Len(cur) > 0 /\ command = <<"i", "f", "-", "g", "o", "t", "o">> -> c_if
          [] Len(cur) > 0 /\ command = <<"f", "u", "n", "c", "t", "i", "o", "n">> -> c_function
          [] Len(cur) > 0 /\ command = <<"r", "e", "t", "u", "r", "n">> -> c_return
          [] Len(cur) > 0 /\ command = <<"c", "a", "l", "l">> -> c_call
          [] Len(cur) > 0 /\ command \in ArithmeticNames -> c_arithmetic

VMParser_is_invalid(cur) == VMCommandType(cur) = c_invalid
VMParser_is_pushpop(cur) == VMCommandType(cur) \in {c_push, c_pop}
VMParser_is_arithmetic(cur) == VMCommandType(cur) = c_arithmetic

\* The command property
VMParser_command(cur) == Words(cur)[1]

\* The arg1 property: the exception it raises, NoError when it returns
VMArg1Error(cur) ==
    IF VMCommandTypeError(cur) # NoError THEN VMCommandTypeError(cur)
    ELSE IF VMCommandType(cur) = c_return
    THEN Raise("AttributeError", "Invalid command type", cur)
    ELSE IF VMCommandType(cur) # c_arithmetic /\ Len(Words(cur)) < 2
    THEN Raise("ValueError", "not enough values to unpack", cur)
    ELSE NoError

\* The arg1 property
VMParser_arg1(cur) == IF VMCommandType(cur) = c_arithmetic THEN cur ELSE Words(cur)[2]

\* The arg2 property: the exception it raises, NoError when it returns
VMArg2Error(cur) ==
    IF VMCommandTypeError(cur) # NoError THEN VMCommandTypeError(cur)
    ELSE IF VMCommandType(cur) \notin {c_push, c_pop, c_function, c_call}
    THEN Raise("AttributeError", "Invalid command type", cur)
    ELSE NoError

\* The arg2 property
VMParser_arg2(cur) == Last(Words(cur))

-----------------------------------------------------------------------------
(***************************************************************************)
(* VMTranslator (src/nnttpy/vmtranslator/translator.py).                    *)
(***************************************************************************)
LowerCase == <<"a", "b", "c", "d", "e", "f", "g", "h", "i", "j", "k", "l", "m", "n", "o", "p", "q", "r", "s", "t", "u", "v", "w", "x", "y", "z">>
UpperCase == <<"A", "B", "C", "D", "E", "F", "G", "H", "I", "J", "K", "L", "M", "N", "O", "P", "Q", "R", "S", "T", "U", "V", "W", "X", "Y", "Z">>

\* str.upper()
Upper(s) ==
    [i \in 1..Len(s) |->
        IF \E k \in 1..Len(LowerCase) : LowerCase[k] = s[i]
        THEN UpperCase[CHOOSE k \in 1..Len(LowerCase) : LowerCase[k] = s[i]]
        ELSE s[i]]

\* name.rfind("."), counted from 1; 0 when there is no dot
LastDot(name) ==
    IF \E i \in 1..Len(name) : name[i] = "."
    THEN CHOOSE i \in 1..Len(name) :
            name[i] = "." /\ \A j \in (i + 1)..Len(name) : name[j] # "."
    ELSE 0

\* pathlib's suffix of a file name: from the last dot, unless the dot is the
\* first or the last character
Suffix(name) ==
    IF 1 < LastDot(name) /\ LastDot(name) < Len(name)
    THEN SubSeq(name, LastDot(name), Len(name)) ELSE <<>>

\* pathlib's stem of a file name
Stem(name) ==
    IF 1 < LastDot(name) /\ LastDot(name) < Len(name)
    THEN SubSeq(name, 1, LastDot(name) - 1) ELSE name

NoInput == [is_dir |-> FALSE, name |-> <<>>, files |-> <<>>]

\* translate(path) is entered: lines 39-46
Translate ==
    /\ t_pc = "idle"
    /\ t_input # NoInput
    /\ IF t_input.is_dir
       THEN /\ w_code' = write_init(w_code, w_func_count)
            /\ w_arg_count' = 0
            /\ w_func_count' = w_func_count + 1
            /\ t_pc' = "files"
            /\ t_err' = t_err
       ELSE IF Suffix(t_input.name) # <<".", "v", "m">>
       THEN /\ t_pc' = "raised"
            /\ t_err' = Raise("ValueError", "Expected .vm file", t_input.name)
            /\ UNCHANGED <<w_code, w_arg_count, w_func_count>>
       ELSE /\ t_pc' = "files"
            /\ UNCHANGED <<t_err, w_code, w_arg_count, w_func_count>>
    /\ UNCHANGED <<w_line_num, w_file_name, vp_code, vp_index, vp_current,
                   t_input, t_file, t_result, plan, w_calls, machine_vars,
                   asm_vars, jack_vars, tok_vars, st_op>>

\* The next file of the for loop is read and given to the parser (lines
\* 48-53); the code setter fetches the first line and raises RuntimeError on
\* a file without lines
TranslateOpenFile ==
    /\ t_pc = "files"
    /\ t_file < Len(t_input.files)
    /\ LET p == t_input.files[t_file + 1]
       IN  /\ vp_code' = p.lines
           /\ IF Len(p.lines) = 0
              THEN /\ vp_index' = 0
                   /\ t_pc' = "raised"
                   /\ t_err' = Raise("RuntimeError", "No successive command exists", <<>>)
                   /\ UNCHANGED <<vp_current, w_line_num, w_file_name>>
              ELSE /\ vp_index' = 1
                   /\ vp_current' = VMCleanLine(p.lines[1])
                   /\ w_line_num' = 0
                   /\ w_file_name' = Upper(Stem(p.name))
                   /\ t_pc' = "lines"
                   /\ t_err' = t_err
    /\ UNCHANGED <<w_code, w_func_count, w_arg_count, t_input, t_file,
                   t_result, plan, w_calls, machine_vars, asm_vars, jack_vars, tok_vars, st_op>>

\* The exception the if chain of lines 56-82 raises on the current command:
\* is_invalid() and is_arithmetic() read command_type, and the next test
\* calls is_push, which VMParser does not define
DispatchError(cur) ==
    IF VMCommandTypeError(cur) # NoError THEN VMCommandTypeError(cur)
    ELSE IF VMParser_is_invalid(cur) \/ VMParser_is_arithmetic(cur) THEN NoError
    ELSE IF "is_push" \notin VMParserAttributes
    THEN Raise("AttributeError", "is_push", <<>>)
    ELSE Raise("NotImplementedError", "Unknown line", cur)

\* _code after the if chain of lines 56-82 on the current command
Dispatch(c, cur, file_name, line_num) ==
    IF VMParser_is_invalid(cur) THEN c
    ELSE write_arithmetic(c, VMParser_command(cur), file_name, line_num)

\* One iteration of the while loop (lines 55-88); the iteration whose
\* advance() raises RuntimeError leaves the loop
TranslateStep ==
    /\ t_pc = "lines"
    /\ IF DispatchError(vp_current) # NoError
       THEN /\ t_pc' = "raised"
            /\ t_err' = DispatchError(vp_current)
            /\ UNCHANGED <<w_code, vp_index, vp_current, w_line_num, t_file>>
       ELSE /\ w_code' = Dispatch(w_code, vp_current, w_file_name, w_line_num)
            /\ t_err' = t_err
            /\ IF vp_index < Len(vp_code)
               THEN /\ vp_current' = VMCleanLine(vp_code[vp_index + 1])
                    /\ vp_index' = vp_index + 1
                    /\ w_line_num' = w_line_num + 1
                    /\ UNCHANGED <<t_pc, t_file>>
               ELSE /\ t_pc' = "files"
                    /\ t_file' = t_file + 1
                    /\ UNCHANGED <<vp_current, vp_index, w_line_num>>
    /\ UNCHANGED <<w_func_count, w_arg_count, w_file_name, vp_code, t_input,
                   t_result, plan, w_calls, machine_vars, asm_vars, jack_vars, tok_vars, st_op>>

\* The for loop is over: return self._writer.code (line 90)
TranslateReturn ==
    /\ t_pc = "files"
    /\ t_file = Len(t_input.files)
    /\ IF code_error(w_code) # NoError
       THEN /\ t_pc' = "raised"
            /\ t_err' = code_error(w_code)
            /\ UNCHANGED <<w_code, t_result>>
       ELSE /\ w_code' = code_property(w_code)
            /\ t_result' = code_property(w_code)
            /\ t_pc' = "returned"
            /\ t_err' = t_err
    /\ UNCHANGED <<w_func_count, w_arg_count, w_line_num, w_file_name, vp_code,
                   vp_index, vp_current, t_input, t_file, plan, w_calls,
                   machine_vars, asm_vars, jack_vars, tok_vars, st_op>>

\* A client of VMCodeWriter makes the next call of its plan (the public
\* methods, lines 52-177), with the bookkeeping of _func_count and
\* _arg_count that write_init, write_call and _init_function do
WriterCall ==
    /\ w_calls < Len(plan)
    /\ LET call == plan[w_calls + 1]
       IN  /\ w_code' =
                CASE call.op = "write_arithmetic" ->
                         write_arithmetic(w_code, call.a1, w_file_name, w_line_num)
                  [] call.op = "write_push" -> write_push(w_code, call.a1, call.a2, w_file_name)
                  [] call.op = "write_pop" -> write_pop(w_code, call.a1, call.a2, w_file_name)
                  [] call.op = "write_init" -> write_init(w_code, w_func_count)
                  [] call.op = "write_label" -> write_label(w_code, call.a1)
                  [] call.op = "write_goto" -> write_goto(w_code, call.a1)
                  [] call.op = "write_if" -> write_if(w_code, call.a1)
                  [] call.op = "write_call" -> write_call(w_code, call.a1, call.a2, w_func_count)
                  [] call.op = "write_return" -> write_return(w_code)
                  [] call.op = "write_function" -> write_function(w_code, call.a1, call.a2)
           /\ w_func_count' = IF call.op \in {"write_init", "write_call"}
                              THEN w_func_count + 1 ELSE w_func_count
           /\ w_arg_count' = IF call.op = "write_init" THEN 0
                             ELSE IF call.op = "write_call" THEN StrToInt(call.a2)
                             ELSE w_arg_count
    /\ w_calls' = w_calls + 1
    /\ UNCHANGED <<w_line_num, w_file_name, translator_vars, plan, machine_vars,
                   asm_vars, jack_vars, tok_vars, st_op>>

-----------------------------------------------------------------------------
(***************************************************************************)
(* The Hack machine the emitted assembly runs on: 16-bit registers A and D, *)
(* data memory M = RAM[A], a program counter, and the symbol resolution of  *)
(* the Hack assembly language (predefined symbols, labels, variables from   *)
(* address 16).                                                             *)
(***************************************************************************)
\* The 16-bit word n is congruent to
Wrap(n) == n % (2^16)

\* The two's complement value of the word v
Signed(v) == IF v >= 2^15 THEN v - 2^16 ELSE v

RECURSIVE AndBits(_, _, _)
\* The bitwise and of the low n bits of x and y
AndBits(x, y, n) ==
    IF n = 0 THEN 0
    ELSE (x % 2) * (y % 2) + 2 * AndBits(x \div 2, y \div 2, n - 1)

RECURSIVE OrBits(_, _, _)
\* The bitwise or of the low n bits of x and y
OrBits(x, y, n) ==
    IF n = 0 THEN 0
    ELSE (IF x % 2 = 1 \/ y % 2 = 1 THEN 1 ELSE 0) + 2 * OrBits(x \div 2, y \div 2, n - 1)

\* The bitwise complement of the word x
NotBits(x) == (2^16 - 1) - x

IsAInstr(l) == Len(l) > 0 /\ l[1] = "@"

IsLabelDecl(l) == Len(l) > 1 /\ l[1] = "(" /\ l[Len(l)] = ")"

LabelName(l) == SubSeq(l, 2, Len(l) - 1)

\* The instructions of a program: its lines without the label declarations
RomOf(code) == SelectSeq(code, LAMBDA l : ~IsLabelDecl(l))

\* The address of the instruction that follows line i
AddressAfter(code, i) == Cardinality({j \in 1..i : ~IsLabelDecl(code[j])})

DeclaresTwice(code) ==
    \E i, j \in 1..Len(code) :
        /\ i < j
        /\ IsLabelDecl(code[i]) /\ IsLabelDecl(code[j])
        /\ LabelName(code[i]) = LabelName(code[j])

\* label -> the address of the instruction that follows its declaration
LabelTable(code) ==
    LET decls == {i \in 1..Len(code) : IsLabelDecl(code[i])}
    IN  [n \in {LabelName(code[i]) : i \in decls} |->
            AddressAfter(code, CHOOSE i \in decls : LabelName(code[i]) = n)]

RECURSIVE Allocate(_, _, _, _)
\* The table after the symbols of lines i.. that it does not hold yet are
\* given the addresses next, next + 1, ... in order of first use
Allocate(code, i, table, next) ==
    IF i > Len(code) THEN table
    ELSE IF /\ IsAInstr(code[i])
            /\ ~IsAllDigits(Tail(code[i]))
            /\ Tail(code[i]) \notin DOMAIN table
         THEN Allocate(code, i + 1, table @@ (Tail(code[i]) :> next), next + 1)
         ELSE Allocate(code, i + 1, table, next)

\* symbol -> address for a program: predefined symbols, then labels, then
\* variables from address 16
Resolve(code) == Allocate(code, 1, InitialSymbols @@ LabelTable(code), ram_predefined)

DestOf(l) == IF Contains(l, <<"=">>) THEN Split(l, <<"=">>)[1] ELSE <<>>

CompOf(l) == Split(Last(Split(l, <<"=">>)), <<";">>)[1]

JumpOf(l) == IF Contains(l, <<";">>) THEN Split(l, <<";">>)[2] ELSE <<>>

Registers == {"A", "D", "M"}

\* The computations of the Hack ALU, operands in either order
ValidComp(c) ==
    \/ Len(c) = 1 /\ c[1] \in Registers \cup {"0", "1"}
    \/ Len(c) = 2 /\ c[1] = "-" /\ c[2] \in Registers \cup {"1"}
    \/ Len(c) = 2 /\ c[1] = "!" /\ c[2] \in Registers
    \/ Len(c) = 3 /\ c[1] \in Registers /\ c[2] \in {"+", "-"} /\ c[3] = "1"
    \/ /\ Len(c) = 3
       /\ c[1] \in Registers /\ c[3] \in Registers /\ c[1] # c[3]
       /\ {c[1], c[3]} # {"A", "M"}
       /\ c[2] \in {"+", "-", "&", "|"}

ValidDest(d) ==
    /\ Len(d) <= 3
    /\ \A i \in 1..Len(d) : d[i] \in Registers
    /\ \A i, j \in 1..Len(d) : i # j => d[i] # d[j]

ValidJump(j) == j = <<>> \/ j \in jump_cmd

\* Whether the instruction reads or writes M
UsesM(l) ==
    \/ \E i \in 1..Len(DestOf(l)) : DestOf(l)[i] = "M"
    \/ \E i \in 1..Len(CompOf(l)) : CompOf(l)[i] = "M"

\* Whether the machine in this state can execute the instruction
Executable(l, a, ram, sym) ==
    IF IsAInstr(l)
    THEN /\ Len(l) > 1
         /\ IF IsAllDigits(Tail(l)) THEN StrToInt(Tail(l)) < 2^15
            ELSE Tail(l) \in DOMAIN sym
    ELSE /\ ValidDest(DestOf(l)) /\ ValidComp(CompOf(l)) /\ ValidJump(JumpOf(l))
         /\ UsesM(l) => a \in DOMAIN ram

AValue(l, sym) == IF IsAllDigits(Tail(l)) THEN StrToInt(Tail(l)) ELSE sym[Tail(l)]

Operand(r, a, d, m) ==
    CASE r = "A" -> a [] r = "D" -> d [] r = "M" -> m [] r = "0" -> 0 [] r = "1" -> 1

\* The word the ALU computes
CompValue(c, a, d, m) ==
    IF Len(c) = 1 THEN Operand(c[1], a, d, m)
    ELSE IF Len(c) = 2
    THEN (IF c[1] = "-" THEN Wrap(0 - Operand(c[2], a, d, m))
          ELSE NotBits(Operand(c[2], a, d, m)))
    ELSE LET x == Operand(c[1], a, d, m)
             y == Operand(c[3], a, d, m)
         IN  CASE c[2] = "+" -> Wrap(x + y)
               [] c[2] = "-" -> Wrap(x - y)
               [] c[2] = "&" -> AndBits(x, y, 16)
               [] c[2] = "|" -> OrBits(x, y, 16)

\* Whether the jump is taken on the computed word v
JumpTaken(j, v) ==
    CASE j = <<>> -> FALSE
      [] j = <<"J", "G", "T">> -> Signed(v) > 0
      [] j = <<"J", "E", "Q">> -> v = 0
      [] j = <<"J", "G", "E">> -> Signed(v) >= 0
      [] j = <<"J", "L", "T">> -> Signed(v) < 0
      [] j = <<"J", "N", "E">> -> v # 0
      [] j = <<"J", "L", "E">> -> Signed(v) <= 0
      [] j = <<"J", "M", "P">> -> TRUE

\* The address the bootstrap code gives the stack (write_init)
StackBase == 256

\* The largest index used with a memory segment
MaxSegIndex == 2

\* Where the segment pointers point when a program starts
SegmentBase == (<<"L", "C", "L">> :> 300) @@ (<<"A", "R", "G">> :> 310) @@ (<<"T", "H", "I", "S">> :> 320) @@ (<<"T", "H", "A", "T">> :> 330)

\* The largest number of arguments of a call
MaxArgs == 2

\* The data memory modelled: the registers and two variables, the stack
\* area, and the cells of the four segments
RamCells ==
    (0..17) \cup ((StackBase - 2)..(StackBase + 12 + MaxArgs + MaxSegIndex))
            \cup UNION {SegmentBase[s]..(SegmentBase[s] + MaxSegIndex) : s \in DOMAIN SegmentBase}

\* The words the stack holds when a program starts
WordSamples == {0, 7, 2^15 - 1, 2^15, 2^16 - 1}

\* What a cell holds when nothing else is said: a word that tells the cells apart
Marker(a) == 1000 + a

\* Data memory with SP = sp, the segment pointers set, and x and y the two
\* topmost words of the stack when sp = StackBase + 2
InitialRam(sp, x, y) ==
    [a \in RamCells |->
        IF a = 0 THEN sp
        ELSE IF a \in 1..4 THEN SegmentBase[CHOOSE s \in DOMAIN SegmentBase : InitialSymbols[s] = a]
        ELSE IF a = StackBase /\ sp = StackBase + 2 THEN x
        ELSE IF a = StackBase + 1 /\ sp = StackBase + 2 THEN y
        ELSE Marker(a)]

\* The words a caller's frame holds: the return address (an address outside
\* the program run) and the caller's LCL, ARG, THIS, THAT
SavedFrame == <<1000, 301, 311, 321, 331>>

\* Data memory inside a function called with n arguments that is about to
\* return v: the arguments from StackBase, the caller's frame above them,
\* LCL just above the frame, no locals, and v on top of the stack
FrameRam(n, v) ==
    LET frame == StackBase + n + Len(SavedFrame)
    IN  [a \in RamCells |->
            IF a = 0 THEN frame + 1
            ELSE IF a = 1 THEN frame
            ELSE IF a = 2 THEN StackBase
            ELSE IF a \in 3..4 THEN SegmentBase[CHOOSE s \in DOMAIN SegmentBase : InitialSymbols[s] = a]
            ELSE IF a \in (StackBase + n)..(frame - 1) THEN SavedFrame[a - (StackBase + n) + 1]
            ELSE IF a = frame THEN v
            ELSE Marker(a)]

InitialRams ==
    {InitialRam(StackBase, 0, 0)}
        \cup {InitialRam(StackBase + 2, x, y) : x \in WordSamples, y \in WordSamples}
        \cup {FrameRam(n, 7) : n \in 0..MaxArgs}

\* The program the writer holds is read through the code property, loaded,
\* and started on one of the initial data memories; a program that declares a label
\* twice does not load
MachineLoad ==
    /\ m_state = "off"
    /\ \/ Len(plan) > 0 /\ w_calls = Len(plan)
       \/ t_pc = "returned"
    /\ code_error(w_code) = NoError
    /\ w_code' = code_property(w_code)
    /\ IF DeclaresTwice(w_code')
       THEN /\ m_state' = "fault"
            /\ UNCHANGED <<m_rom, m_sym, m_ram, m_ram0>>
       ELSE /\ m_state' = "running"
            /\ m_rom' = RomOf(w_code')
            /\ m_sym' = Resolve(w_code')
            /\ m_ram' \in InitialRams
            /\ m_ram0' = m_ram'
    /\ UNCHANGED <<m_A, m_D, m_pc, w_func_count, w_arg_count, w_line_num,
                   w_file_name, translator_vars, plan, w_calls, asm_vars, jack_vars, tok_vars, st_op>>

\* The machine executes the instruction at the program counter; it stops in
\* state left when the program counter is outside the program, and in state
\* fault on an instruction it cannot execute
CpuStep ==
    /\ m_state = "running"
    /\ IF m_pc >= Len(m_rom)
       THEN /\ m_state' = "left"
            /\ UNCHANGED <<m_A, m_D, m_ram, m_pc>>
       ELSE IF ~Executable(m_rom[m_pc + 1], m_A, m_ram, m_sym)
       THEN /\ m_state' = "fault"
            /\ UNCHANGED <<m_A, m_D, m_ram, m_pc>>
       ELSE LET ins == m_rom[m_pc + 1]
                d == DestOf(ins)
                m == IF m_A \in DOMAIN m_ram THEN m_ram[m_A] ELSE 0
                v == CompValue(CompOf(ins), m_A, m_D, m)
                writes(r) == \E i \in 1..Len(d) : d[i] = r
            IN  IF IsAInstr(ins)
                THEN /\ m_A' = AValue(ins, m_sym)
                     /\ m_pc' = m_pc + 1
                     /\ UNCHANGED <<m_D, m_ram, m_state>>
                ELSE /\ m_A' = IF writes("A") THEN v ELSE m_A
                     /\ m_D' = IF writes("D") THEN v ELSE m_D
                     /\ m_ram' = IF writes("M") THEN [m_ram EXCEPT ![m_A] = v] ELSE m_ram
                     /\ m_pc' = IF JumpTaken(JumpOf(ins), v) THEN m_A ELSE m_pc + 1
                     /\ m_state' = m_state
    /\ UNCHANGED <<m_rom, m_sym, m_ram0, writer_vars, translator_vars, plan,
                   w_calls, asm_vars, jack_vars, tok_vars, st_op>>

-----------------------------------------------------------------------------
(***************************************************************************)
(* The Jack compiler: VMWriter, SymbolTable and JackCompileEngine.  The     *)
(* engine is one object; a method is an operator from the object's state e  *)
(* (with the value the method returned in e.ret) to its state afterwards.   *)
(* An exception is the field err: a method called on a state that carries   *)
(* an exception changes nothing, which is how the exception leaves every    *)
(* enclosing call.                                                          *)
(***************************************************************************)
Failed(e) == e.err.exc # "none"

Fail(e, err) == [e EXCEPT !.err = err]

RECURSIVE JoinWith(_, _)
\* sep.join(q)
JoinWith(q, sep) ==
    IF Len(q) = 0 THEN <<>>
    ELSE IF Len(q) = 1 THEN q[1]
    ELSE q[1] \o sep \o JoinWith(Tail(q), sep)

\* VMWriter
memory_segment ==
    {<<"a", "r", "g", "u", "m", "e", "n", "t">>, <<"l", "o", "c", "a", "l">>, <<"s", "t", "a", "t", "i", "c">>, <<"c", "o", "n", "s", "t", "a", "n", "t">>, <<"t", "h", "i", "s">>, <<"t", "h", "a", "t">>, <<"p", "o", "i", "n", "t", "e", "r">>, <<"t", "e", "m", "p">>}

op_commands == {<<"a", "d", "d">>, <<"s", "u", "b">>, <<"n", "e", "g">>, <<"e", "q">>, <<"g", "t">>, <<"l", "t">>, <<"a", "n", "d">>, <<"o", "r">>, <<"n", "o", "t">>}

\* write_push(segment, index); index is the text that the f-string gives
VMWriter_write_push(e, segment, index) ==
    IF Failed(e) THEN e
    ELSE IF segment \notin memory_segment
    THEN Fail(e, Raise("ValueError", "Unexpected segment", segment))
    ELSE [e EXCEPT !.vm = Append(@, <<"p", "u", "s", "h", " ">> \o segment \o <<" ">> \o index)]

VMWriter_write_pop(e, segment, index) ==
    IF Failed(e) THEN e
    ELSE IF segment \notin memory_segment
    THEN Fail(e, Raise("ValueError", "Unexpected segment", segment))
    ELSE [e EXCEPT !.vm = Append(@, <<"p", "o", "p", " ">> \o segment \o <<" ">> \o index)]

VMWriter_write_arithmetic(e, command) ==
    IF Failed(e) THEN e
    ELSE IF command \notin op_commands
    THEN Fail(e, Raise("ValueError", "Unexpected command", command))
    ELSE [e EXCEPT !.vm = Append(@, command)]

VMWriter_write_call(e, name, n_args) ==
    IF Failed(e) THEN e
    ELSE [e EXCEPT !.vm = Append(@, <<"c", "a", "l", "l", " ">> \o name \o <<" ">> \o IntToStr(n_args))]

\* write_function(name, n_locals): the line written begins with call
VMWriter_write_function(e, name, n_locals) ==
    IF Failed(e) THEN e
    ELSE [e EXCEPT !.vm = Append(@, <<"c", "a", "l", "l", " ">> \o name \o <<" ">> \o IntToStr(n_locals))]

\* SymbolTable
possible_kind == {<<"s", "t", "a", "t", "i", "c">>, <<"f", "i", "e", "l", "d">>, <<"a", "r", "g", "u", "m", "e", "n", "t">>, <<"v", "a", "r">>}

TableElement(name, type, kind, number) ==
    [name |-> name, type |-> type, kind |-> kind, number |-> number]

\* SymbolTable.__init__
InitialNumbers == [k \in possible_kind |-> 0]

\* key in symbol_table
SymbolTable_contains(e, key) ==
    key \in DOMAIN e.class_table \/ key \in DOMAIN e.subroutine_table

\* symbol_table[key]: the class table is looked up first
SymbolTable_getitem_error(e, key) ==
    IF SymbolTable_contains(e, key) THEN NoError
    ELSE Raise("KeyError", "Not found key", key)

SymbolTable_getitem(e, key) ==
    IF key \in DOMAIN e.class_table THEN e.class_table[key]
    ELSE e.subroutine_table[key]

\* start_subroutine(): sets the entries "arg" and "var" of the number table
start_subroutine(e) ==
    IF Failed(e) THEN e
    ELSE [e EXCEPT !.subroutine_table = EmptyTable,
                   !.number_table = [k \in DOMAIN @ \cup {<<"a", "r", "g">>, <<"v", "a", "r">>} |->
                                        IF k \in {<<"a", "r", "g">>, <<"v", "a", "r">>} THEN 0 ELSE @[k]]]

start_class(e) ==
    IF Failed(e) THEN e
    ELSE start_subroutine([e EXCEPT !.class_table = EmptyTable,
                                    !.number_table = [@ EXCEPT ![<<"s", "t", "a", "t", "i", "c">>] = 0,
                                                               ![<<"f", "i", "e", "l", "d">>] = 0]])

\* define(name, type, kind)
define(e, name, type, kind) ==
    IF Failed(e) THEN e
    ELSE IF kind \notin possible_kind
    THEN Fail(e, Raise("ValueError", "Unexpected kind", kind))
    ELSE IF name = <<>> \/ type = <<>>
    THEN Fail(e, Raise("ValueError", "Empty string is not allowed", name))
    ELSE LET number == e.number_table[kind]
             element == TableElement(name, type, kind, number)
             e1 == [e EXCEPT !.number_table[kind] = @ + 1]
         IN  IF kind \in {<<"s", "t", "a", "t", "i", "c">>, <<"f", "i", "e", "l", "d">>}
             THEN [e1 EXCEPT !.class_table = (name :> element) @@ @]
             ELSE [e1 EXCEPT !.subroutine_table = (name :> element) @@ @]

\* The symbol table as the variables hold it
Table ==
    [class_table |-> class_table, subroutine_table |-> subroutine_table,
     number_table |-> number_table, err |-> NoError]

\* What a client of the symbol table called last, with the key it looked
\* up, the element it got and the answer of `key in table`
NoCall == [op |-> "none", key |-> <<>>, ret |-> <<>>, found |-> FALSE, err |-> NoError]

TableBecomes(e) ==
    /\ class_table' = e.class_table
    /\ subroutine_table' = e.subroutine_table
    /\ number_table' = e.number_table

\* A client calls start_class()
TableStartClass ==
    /\ TableBecomes(start_class(Table))
    /\ st_op' = [NoCall EXCEPT !.op = "start_class"]
    /\ UNCHANGED <<j_token_list, j_line_list, j_index, j_code, j_class_name,
                   vw_code, j_input, j_calls, j_result, j_err, asm_vars, vm_vars,
                   tok_vars>>

\* A client calls start_subroutine()
TableStartSubroutine ==
    /\ TableBecomes(start_subroutine(Table))
    /\ st_op' = [NoCall EXCEPT !.op = "start_subroutine"]
    /\ UNCHANGED <<j_token_list, j_line_list, j_index, j_code, j_class_name,
                   vw_code, j_input, j_calls, j_result, j_err, asm_vars, vm_vars,
                   tok_vars>>

\* A client calls define(name, type, kind)
TableDefine(name, type, kind) ==
    /\ TableBecomes(define(Table, name, type, kind))
    /\ st_op' = [NoCall EXCEPT !.op = "define", !.key = name,
                               !.err = define(Table, name, type, kind).err]
    /\ UNCHANGED <<j_token_list, j_line_list, j_index, j_code, j_class_name,
                   vw_code, j_input, j_calls, j_result, j_err, asm_vars, vm_vars,
                   tok_vars>>

\* A client evaluates table[key] and key in table
TableLookup(key) ==
    /\ st_op' = [op |-> "getitem", key |-> key,
                 ret |-> IF SymbolTable_contains(Table, key)
                         THEN SymbolTable_getitem(Table, key) ELSE <<>>,
                 found |-> SymbolTable_contains(Table, key),
                 err |-> SymbolTable_getitem_error(Table, key)]
    /\ UNCHANGED <<jack_vars, asm_vars, vm_vars, tok_vars>>

\* XMLCompilationEngine: the class attributes
class_var_dec_tokens == {<<"s", "t", "a", "t", "i", "c">>, <<"f", "i", "e", "l", "d">>}
subroutine_tokens == {<<"c", "o", "n", "s", "t", "r", "u", "c", "t", "o", "r">>, <<"f", "u", "n", "c", "t", "i", "o", "n">>, <<"m", "e", "t", "h", "o", "d">>}
statement_tokens == {<<"l", "e", "t">>, <<"i", "f">>, <<"w", "h", "i", "l", "e">>, <<"d", "o">>, <<"r", "e", "t", "u", "r", "n">>}
type_tokens == {<<"i", "n", "t">>, <<"c", "h", "a", "r">>, <<"b", "o", "o", "l", "e", "a", "n">>}
ops == {<<"+">>, <<"-">>, <<"*">>, <<"/">>, <<"&", "a", "m", "p", ";">>, <<"|">>, <<"&", "l", "t", ";">>, <<"&", "g", "t", ";">>, <<"=">>}
unary_ops == {<<"-">>, <<"~">>}
keyword_constant == {<<"t", "r", "u", "e">>, <<"f", "a", "l", "s", "e">>, <<"n", "u", "l", "l">>, <<"t", "h", "i", "s">>}

\* _get_contents(index): the token is split at blanks; the first piece
\* without < and > is the tag, the pieces between the first and the last
\* one, joined by blanks, are the content
get_contents_error(e, index) ==
    IF index >= Len(e.token_list)
    THEN Raise("IndexError", "list index out of range", <<>>)
    ELSE IF Len(Split(e.token_list[index + 1], <<" ">>)) < 2
    THEN Raise("ValueError", "not enough values to unpack", e.token_list[index + 1])
    ELSE NoError

get_contents(e, index) ==
    LET pieces == Split(e.token_list[index + 1], <<" ">>)
    IN  [tag |-> StripChars(pieces[1], {"<", ">"}),
         content |-> JoinWith(SubSeq(pieces, 2, Len(pieces) - 1), <<" ">>)]

\* The token at index can be read
Readable(e, index) == get_contents_error(e, index).exc = "none"

\* _check_syntax(tag, content, raises, index): content is the set of the
\* contents allowed, empty for any content
check_syntax(e, tag, content, index) ==
    LET cur == get_contents(e, index)
    IN  cur.tag = tag /\ (content = {} \/ cur.content \in content)

check_syntax_error(e, tag, content, raises, index) ==
    IF ~Readable(e, index) THEN get_contents_error(e, index)
    ELSE IF raises /\ ~check_syntax(e, tag, content, index)
    THEN Raise("SyntaxError", "Expected tag and content",
               <<get_contents(e, index).tag, get_contents(e, index).content,
                 IntToStr(e.line_list[index + 1])>>)
    ELSE NoError

\* _check_next_syntax(tag, content)
check_next_syntax(e, tag, content) == check_syntax(e, tag, content, e.index + 1)

\* _check_type(allow_void, raises, index)
check_type(e, allow_void, index) ==
    \/ check_syntax(e, <<"k", "e", "y", "w", "o", "r", "d">>, type_tokens, index)
    \/ check_syntax(e, <<"i", "d", "e", "n", "t", "i", "f", "i", "e", "r">>, {}, index)
    \/ allow_void /\ check_syntax(e, <<"k", "e", "y", "w", "o", "r", "d">>, {<<"v", "o", "i", "d">>}, index)

check_type_error(e, allow_void, raises, index) ==
    IF ~Readable(e, index) THEN get_contents_error(e, index)
    ELSE IF raises /\ ~check_type(e, allow_void, index)
    THEN Raise("SyntaxError", "Expected valid type",
               <<get_contents(e, index).tag, get_contents(e, index).content,
                 IntToStr(e.line_list[index + 1])>>)
    ELSE NoError

\* _check_ops(raises)
check_ops(e) == check_syntax(e, <<"s", "y", "m", "b", "o", "l">>, ops, e.index)

check_ops_error(e, raises) ==
    IF ~Readable(e, e.index) THEN get_contents_error(e, e.index)
    ELSE IF raises /\ ~check_ops(e)
    THEN Raise("SyntaxError", "Expected valid type",
               <<get_contents(e, e.index).tag, get_contents(e, e.index).content>>)
    ELSE NoError

\* The token at _index is written and passed, and its content returned
WriteToken(e) ==
    [e EXCEPT !.code = Append(@, e.token_list[e.index + 1]),
              !.index = @ + 1,
              !.ret = get_contents(e, e.index).content]

\* _write_checked_token(tag, content)
write_checked_token(e, tag, content) ==
    IF Failed(e) THEN e
    ELSE IF check_syntax_error(e, tag, content, TRUE, e.index).exc # "none"
    THEN Fail(e, check_syntax_error(e, tag, content, TRUE, e.index))
    ELSE WriteToken(e)

\* _write_checked_type(allow_void)
write_checked_type(e, allow_void) ==
    IF Failed(e) THEN e
    ELSE IF check_type_error(e, allow_void, TRUE, e.index).exc # "none"
    THEN Fail(e, check_type_error(e, allow_void, TRUE, e.index))
    ELSE WriteToken(e)

\* _write_checked_ops()
write_checked_ops(e) ==
    IF Failed(e) THEN e
    ELSE IF check_ops_error(e, TRUE).exc # "none"
    THEN Fail(e, check_ops_error(e, TRUE))
    ELSE WriteToken(e)

\* _write_non_terminal_tag(tag)
write_non_terminal_tag(e, tag) ==
    IF Failed(e) THEN e
    ELSE [e EXCEPT !.code = Append(@, <<"<">> \o tag \o <<">">>)]

\* JackCompileEngine: the class attributes
ops_table ==
    (<<"+">> :> <<"a", "d", "d">>) @@ (<<"-">> :> <<"s", "u", "b">>) @@ (<<"=">> :> <<"e", "q">>) @@ (<<"&", "l", "t", ";">> :> <<"<">>)
        @@ (<<"&", "g", "t", ";">> :> <<">">>) @@ (<<"&", "a", "m", "p", ";">> :> <<"a", "n", "d">>) @@ (<<"|">> :> <<"o", "r">>)

unary_ops_table == (<<"-">> :> <<"n", "e", "g">>) @@ (<<"~">> :> <<"n", "o", "t">>)

RECURSIVE Invoke(_, _, _)
\* Invoke(method, e, arg) is the call self.method(arg) on the engine: it runs
\* the method of JackCompileEngine, or the one inherited from
\* XMLCompilationEngine where JackCompileEngine defines none; arg is <<>> for
\* a method without arguments.  A method is written as a chain of operators,
\* one per stretch of its body, each taking the engine as the stretch before
\* left it and the local variables that the rest of the body uses.

\* One operator of ops_list is written
EmitOp(e, op, category) ==
    IF category = "unary" THEN VMWriter_write_arithmetic(e, unary_ops_table[op])
    ELSE IF op = <<"*">> THEN VMWriter_write_call(e, <<"M", "a", "t", "h", ".", "m", "u", "l", "t", "i", "p", "l", "y">>, 2)
    ELSE IF op = <<"/">> THEN VMWriter_write_call(e, <<"M", "a", "t", "h", ".", "d", "e", "v", "i", "d", "e">>, 2)
    ELSE VMWriter_write_arithmetic(e, ops_table[op])

RECURSIVE EmitOps(_)
\* The second loop of compile_expression: the operators collected are taken
\* from the end of ops_list, one by one, and written
EmitOps(e) ==
    IF Failed(e) \/ Len(e.ops) = 0 THEN e
    ELSE EmitOps(EmitOp([e EXCEPT !.ops = SubSeq(@, 1, Len(@) - 1)],
                        e.ops[Len(e.ops)][1], e.ops[Len(e.ops)][2]))

\* ops_list.append((_op, category)) for the operator just written
AppendOp(e, category) ==
    IF Failed(e) THEN e ELSE [e EXCEPT !.ops = Append(@, <<e.ret, category>>)]

RECURSIVE ExpressionLoop(_)
\* The first loop of compile_expression: (op term)*
ExpressionLoop(e) ==
    IF Failed(e) THEN e
    ELSE IF ~Readable(e, e.index) THEN Fail(e, get_contents_error(e, e.index))
    ELSE IF ~check_ops(e) THEN e
    ELSE ExpressionLoop(Invoke("compile_term", AppendOp(write_checked_ops(e), "bi"),
                               <<>>))

\* The caller's ops_list is in place again
RestoreOps(e, ops_list) == [e EXCEPT !.ops = ops_list]

\* compile_expression(): ops_list is a new list, e.ops holds it while the
\* expression is compiled
compile_expression(e) ==
    IF Failed(e) THEN e
    ELSE RestoreOps(
             EmitOps(write_non_terminal_tag(
                 ExpressionLoop(
                     Invoke("compile_term",
                            write_non_terminal_tag([e EXCEPT !.ops = <<>>],
                                                   <<"e", "x", "p", "r", "e", "s", "s", "i", "o", "n">>),
                            <<>>)),
                 <<"/", "e", "x", "p", "r", "e", "s", "s", "i", "o", "n">>)),
             e.ops)

\* write_push("constant", _constant) for the constant just written
PushConstant(e) ==
    IF Failed(e) THEN e ELSE VMWriter_write_push(e, <<"c", "o", "n", "s", "t", "a", "n", "t">>, e.ret)

\* The term varName '[' expression ']'
ArrayTerm(e) ==
    write_checked_token(
        Invoke("compile_expression",
               write_checked_token(write_checked_token(e, <<"i", "d", "e", "n", "t", "i", "f", "i", "e", "r">>, {}),
                                   <<"s", "y", "m", "b", "o", "l">>, {<<"[">>}),
               <<>>),
        <<"s", "y", "m", "b", "o", "l">>, {<<"]">>})

\* The if chain of compile_term(ops_list)
TermBody(e) ==
    IF Failed(e) THEN e
    ELSE IF ~Readable(e, e.index) THEN Fail(e, get_contents_error(e, e.index))
    ELSE IF check_syntax(e, <<"i", "n", "t", "e", "g", "e", "r", "C", "o", "n", "s", "t", "a", "n", "t">>, {}, e.index)
    THEN PushConstant(write_checked_token(e, <<"i", "n", "t", "e", "g", "e", "r", "C", "o", "n", "s", "t", "a", "n", "t">>, {}))
    ELSE IF check_syntax(e, <<"s", "t", "r", "i", "n", "g", "C", "o", "n", "s", "t", "a", "n", "t">>, {}, e.index)
    THEN write_checked_token(e, <<"s", "t", "r", "i", "n", "g", "C", "o", "n", "s", "t", "a", "n", "t">>, {})
    ELSE IF check_syntax(e, <<"k", "e", "y", "w", "o", "r", "d">>, keyword_constant, e.index)
    THEN write_checked_token(e, <<"k", "e", "y", "w", "o", "r", "d">>, keyword_constant)
    ELSE IF check_syntax(e, <<"s", "y", "m", "b", "o", "l">>, {<<"(">>}, e.index)
    THEN write_checked_token(
             Invoke("compile_expression", write_checked_token(e, <<"s", "y", "m", "b", "o", "l">>, {<<"(">>}), <<>>),
             <<"s", "y", "m", "b", "o", "l">>, {<<")">>})
    ELSE IF check_syntax(e, <<"s", "y", "m", "b", "o", "l">>, unary_ops, e.index)
    THEN Invoke("compile_term",
                AppendOp(write_checked_token(e, <<"s", "y", "m", "b", "o", "l">>, unary_ops), "unary"), <<>>)
    ELSE IF check_syntax(e, <<"i", "d", "e", "n", "t", "i", "f", "i", "e", "r">>, {}, e.index)
    THEN IF ~Readable(e, e.index + 1)
         THEN Fail(e, get_contents_error(e, e.index + 1))
         ELSE IF check_next_syntax(e, <<"s", "y", "m", "b", "o", "l">>, {<<"[">>}) THEN ArrayTerm(e)
         ELSE IF check_next_syntax(e, <<"s", "y", "m", "b", "o", "l">>, {<<".">>, <<"(">>})
         THEN Invoke("compile_subroutine_call", e, <<>>)
         ELSE write_checked_token(e, <<"i", "d", "e", "n", "t", "i", "f", "i", "e", "r">>, {})
    ELSE e

\* compile_term(ops_list)
compile_term(e) ==
    write_non_terminal_tag(TermBody(write_non_terminal_tag(e, <<"t", "e", "r", "m">>)), <<"/", "t", "e", "r", "m">>)

RECURSIVE ExpressionListLoop(_, _)
\* The while loop of compile_expression_list
ExpressionListLoop(e, num_args) ==
    IF Failed(e) THEN e
    ELSE IF ~Readable(e, e.index) THEN Fail(e, get_contents_error(e, e.index))
    ELSE IF ~check_syntax(e, <<"s", "y", "m", "b", "o", "l">>, {<<",">>}, e.index) THEN [e EXCEPT !.ret = num_args]
    ELSE ExpressionListLoop(
             Invoke("compile_expression", write_checked_token(e, <<"s", "y", "m", "b", "o", "l">>, {<<",">>}), <<>>),
             num_args + 1)

\* The closing tag is written and value is returned
Returning(e, tag, value) ==
    IF Failed(e) THEN e ELSE [write_non_terminal_tag(e, tag) EXCEPT !.ret = value]

\* The end of a method that returns the number its loop has counted
ReturningCount(e, tag) == IF Failed(e) THEN e ELSE Returning(e, tag, e.ret)

\* compile_expression_list(is_empty): returns num_args
compile_expression_list(e, is_empty) ==
    IF Failed(e) THEN e
    ELSE IF is_empty
    THEN Returning(write_non_terminal_tag(e, <<"e", "x", "p", "r", "e", "s", "s", "i", "o", "n", "L", "i", "s", "t">>), <<"/", "e", "x", "p", "r", "e", "s", "s", "i", "o", "n", "L", "i", "s", "t">>, 0)
    ELSE ReturningCount(
             ExpressionListLoop(
                 Invoke("compile_expression",
                        write_non_terminal_tag(e, <<"e", "x", "p", "r", "e", "s", "s", "i", "o", "n", "L", "i", "s", "t">>), <<>>),
                 0),
             <<"/", "e", "x", "p", "r", "e", "s", "s", "i", "o", "n", "L", "i", "s", "t">>)

\* compile_subroutine_call(), its end: ')' is written, then the call and
\* pop temp 0; e.ret is the number that compile_expression_list returned
CallEnd(e, subroutine_call_name, method_call) ==
    IF Failed(e) THEN e
    ELSE VMWriter_write_pop(
             VMWriter_write_call(write_checked_token(e, <<"s", "y", "m", "b", "o", "l">>, {<<")">>}),
                                 subroutine_call_name,
                                 IF method_call THEN e.ret + 1 ELSE e.ret),
             <<"t", "e", "m", "p">>, <<"0">>)

\* compile_subroutine_call(), the expression list after '('
CallList(e) ==
    IF Failed(e) THEN e
    ELSE IF ~Readable(e, e.index) THEN Fail(e, get_contents_error(e, e.index))
    ELSE Invoke("compile_expression_list", e,
                check_syntax(e, <<"s", "y", "m", "b", "o", "l">>, {<<")">>}, e.index))

\* compile_subroutine_call() from the test of caller_name on; e.ret is
\* subroutine_name
CallTarget(e, caller_name) ==
    IF Failed(e) THEN e
    ELSE IF SymbolTable_contains(e, caller_name)
    THEN CallEnd(
             CallList(write_checked_token(
                 VMWriter_write_push(
                     e, <<"l", "o", "c", "a", "l">>, IntToStr(SymbolTable_getitem(e, caller_name).number)),
                 <<"s", "y", "m", "b", "o", "l">>, {<<"(">>})),
             SymbolTable_getitem(e, caller_name).type \o <<".">> \o e.ret, TRUE)
    ELSE CallEnd(CallList(write_checked_token(e, <<"s", "y", "m", "b", "o", "l">>, {<<"(">>})),
                 caller_name \o <<".">> \o e.ret, FALSE)

\* compile_subroutine_call() after the caller's name; e.ret is caller_name
DottedCall(e) ==
    IF Failed(e) THEN e
    ELSE CallTarget(
             write_checked_token(write_checked_token(e, <<"s", "y", "m", "b", "o", "l">>, {<<".">>}),
                                 <<"i", "d", "e", "n", "t", "i", "f", "i", "e", "r">>, {}),
             e.ret)

\* compile_subroutine_call()
compile_subroutine_call(e) ==
    IF Failed(e) THEN e
    ELSE IF ~Readable(e, e.index + 1) THEN Fail(e, get_contents_error(e, e.index + 1))
    ELSE IF check_next_syntax(e, <<"s", "y", "m", "b", "o", "l">>, {<<".">>})
    THEN DottedCall(write_checked_token(e, <<"i", "d", "e", "n", "t", "i", "f", "i", "e", "r">>, {}))
    ELSE CallTarget(write_checked_token(e, <<"i", "d", "e", "n", "t", "i", "f", "i", "e", "r">>, {}), <<>>)

RECURSIVE StatementsLoop(_)

\* compile_do() of XMLCompilationEngine, which JackCompileEngine inherits
compile_do(e) ==
    write_non_terminal_tag(
        write_checked_token(
            Invoke("compile_subroutine_call",
                   write_checked_token(write_non_terminal_tag(e, <<"d", "o", "S", "t", "a", "t", "e", "m", "e", "n", "t">>),
                                       <<"k", "e", "y", "w", "o", "r", "d">>, {<<"d", "o">>}),
                   <<>>),
            <<"s", "y", "m", "b", "o", "l">>, {<<";">>}),
        <<"/", "d", "o", "S", "t", "a", "t", "e", "m", "e", "n", "t">>)

\* compile_let(), the writes after the statement is read
LetStore(e, var_symbol, do_array_assign) ==
    IF do_array_assign
    THEN VMWriter_write_pop(
             VMWriter_write_push(
                 VMWriter_write_pop(VMWriter_write_pop(e, <<"t", "e", "m", "p">>, <<"0">>),
                                    <<"p", "o", "i", "n", "t", "e", "r">>, <<"1">>),
                 <<"t", "e", "m", "p">>, <<"0">>),
             <<"t", "h", "a", "t">>, <<"0">>)
    ELSE VMWriter_write_pop(e, var_symbol.kind, IntToStr(var_symbol.number))

\* compile_let(): '=' expression ';'
LetValue(e) ==
    write_non_terminal_tag(
        write_checked_token(
            Invoke("compile_expression", write_checked_token(e, <<"s", "y", "m", "b", "o", "l">>, {<<"=">>}), <<>>),
            <<"s", "y", "m", "b", "o", "l">>, {<<";">>}),
        <<"/", "l", "e", "t", "S", "t", "a", "t", "e", "m", "e", "n", "t">>)

\* compile_let(): '[' expression ']', then the array's address is pushed and
\* added
LetIndex(e, var_symbol) ==
    VMWriter_write_arithmetic(
        VMWriter_write_push(
            write_checked_token(
                Invoke("compile_expression", write_checked_token(e, <<"s", "y", "m", "b", "o", "l">>, {<<"[">>}),
                       <<>>),
                <<"s", "y", "m", "b", "o", "l">>, {<<"]">>}),
            var_symbol.kind, IntToStr(var_symbol.number)),
        <<"a", "d", "d">>)

\* compile_let() with symbol looked up
LetAssign(e, var_symbol) ==
    IF ~Readable(e, e.index) THEN Fail(e, get_contents_error(e, e.index))
    ELSE IF check_syntax(e, <<"s", "y", "m", "b", "o", "l">>, {<<"[">>}, e.index)
    THEN LetStore(LetValue(LetIndex(e, var_symbol)), var_symbol, TRUE)
    ELSE LetStore(LetValue(e), var_symbol, FALSE)

\* compile_let() from symbol = self._symbol_table[var_name] on; e.ret is
\* var_name
LetTarget(e) ==
    IF Failed(e) THEN e
    ELSE IF ~SymbolTable_contains(e, e.ret)
    THEN Fail(e, SymbolTable_getitem_error(e, e.ret))
    ELSE LetAssign(e, SymbolTable_getitem(e, e.ret))

\* compile_let()
compile_let(e) ==
    LetTarget(write_checked_token(
                  write_checked_token(write_non_terminal_tag(e, <<"l", "e", "t", "S", "t", "a", "t", "e", "m", "e", "n", "t">>),
                                      <<"k", "e", "y", "w", "o", "r", "d">>, {<<"l", "e", "t">>}),
                  <<"i", "d", "e", "n", "t", "i", "f", "i", "e", "r">>, {}))

\* '(' expression ')' '{' statements '}' of a while or an if statement
ConditionAndBlock(e) ==
    write_checked_token(
        Invoke("compile_statements",
               write_checked_token(
                   write_checked_token(
                       Invoke("compile_expression",
                              write_checked_token(e, <<"s", "y", "m", "b", "o", "l">>, {<<"(">>}), <<>>),
                       <<"s", "y", "m", "b", "o", "l">>, {<<")">>}),
                   <<"s", "y", "m", "b", "o", "l">>, {<<"{">>}),
               <<>>),
        <<"s", "y", "m", "b", "o", "l">>, {<<"}">>})

\* compile_while() of XMLCompilationEngine
compile_while(e) ==
    write_non_terminal_tag(
        ConditionAndBlock(
            write_checked_token(write_non_terminal_tag(e, <<"w", "h", "i", "l", "e", "S", "t", "a", "t", "e", "m", "e", "n", "t">>),
                                <<"k", "e", "y", "w", "o", "r", "d">>, {<<"w", "h", "i", "l", "e">>})),
        <<"/", "w", "h", "i", "l", "e", "S", "t", "a", "t", "e", "m", "e", "n", "t">>)

\* compile_return(): expression?
ReturnValue(e) ==
    IF Failed(e) THEN e
    ELSE IF ~Readable(e, e.index) THEN Fail(e, get_contents_error(e, e.index))
    ELSE IF ~check_syntax(e, <<"s", "y", "m", "b", "o", "l">>, {<<";">>}, e.index)
    THEN Invoke("compile_expression", e, <<>>)
    ELSE e

\* compile_return() of XMLCompilationEngine
compile_return(e) ==
    write_non_terminal_tag(
        write_checked_token(
            ReturnValue(write_checked_token(
                            write_non_terminal_tag(e, <<"r", "e", "t", "u", "r", "n", "S", "t", "a", "t", "e", "m", "e", "n", "t">>),
                            <<"k", "e", "y", "w", "o", "r", "d">>, {<<"r", "e", "t", "u", "r", "n">>})),
            <<"s", "y", "m", "b", "o", "l">>, {<<";">>}),
        <<"/", "r", "e", "t", "u", "r", "n", "S", "t", "a", "t", "e", "m", "e", "n", "t">>)

\* compile_if(): ('else' '{' statements '}')?
ElseBlock(e) ==
    IF Failed(e) THEN e
    ELSE IF ~Readable(e, e.index) THEN Fail(e, get_contents_error(e, e.index))
    ELSE IF check_syntax(e, <<"k", "e", "y", "w", "o", "r", "d">>, {<<"e", "l", "s", "e">>}, e.index)
    THEN write_checked_token(
             Invoke("compile_statements",
                    write_checked_token(write_checked_token(e, <<"k", "e", "y", "w", "o", "r", "d">>, {<<"e", "l", "s", "e">>}),
                                        <<"s", "y", "m", "b", "o", "l">>, {<<"{">>}),
                    <<>>),
             <<"s", "y", "m", "b", "o", "l">>, {<<"}">>})
    ELSE e

\* compile_if() of XMLCompilationEngine
compile_if(e) ==
    write_non_terminal_tag(
        ElseBlock(ConditionAndBlock(
                      write_checked_token(write_non_terminal_tag(e, <<"i", "f", "S", "t", "a", "t", "e", "m", "e", "n", "t">>),
                                          <<"k", "e", "y", "w", "o", "r", "d">>, {<<"i", "f">>}))),
        <<"/", "i", "f", "S", "t", "a", "t", "e", "m", "e", "n", "t">>)

\* The while loop of compile_statements
StatementsLoop(e) ==
    IF Failed(e) THEN e
    ELSE IF ~Readable(e, e.index) THEN Fail(e, get_contents_error(e, e.index))
    ELSE IF ~check_syntax(e, <<"k", "e", "y", "w", "o", "r", "d">>, statement_tokens, e.index) THEN e
    ELSE StatementsLoop(
             IF check_syntax(e, <<"k", "e", "y", "w", "o", "r", "d">>, {<<"d", "o">>}, e.index)
             THEN Invoke("compile_do", e, <<>>)
             ELSE IF check_syntax(e, <<"k", "e", "y", "w", "o", "r", "d">>, {<<"l", "e", "t">>}, e.index)
             THEN Invoke("compile_let", e, <<>>)
             ELSE IF check_syntax(e, <<"k", "e", "y", "w", "o", "r", "d">>, {<<"w", "h", "i", "l", "e">>}, e.index)
             THEN Invoke("compile_while", e, <<>>)
             ELSE IF check_syntax(e, <<"k", "e", "y", "w", "o", "r", "d">>, {<<"r", "e", "t", "u", "r", "n">>}, e.index)
             THEN Invoke("compile_return", e, <<>>)
             ELSE Invoke("compile_if", e, <<>>))

\* compile_statements() of XMLCompilationEngine
compile_statements(e) ==
    write_non_terminal_tag(StatementsLoop(write_non_terminal_tag(e, <<"s", "t", "a", "t", "e", "m", "e", "n", "t", "s">>)),
                           <<"/", "s", "t", "a", "t", "e", "m", "e", "n", "t", "s">>)

\* self._symbol_table.define(var_name, var_type, var_kind) for the name just
\* written; e.ret is var_name
DefineWritten(e, var_type, var_kind) ==
    IF Failed(e) THEN e ELSE define(e, e.ret, var_type, var_kind)

RECURSIVE VarDecLoop(_, _, _)
\* The while loop of compile_var_dec: (',' varName)*
VarDecLoop(e, var_type, num_vars) ==
    IF Failed(e) THEN e
    ELSE IF ~Readable(e, e.index) THEN Fail(e, get_contents_error(e, e.index))
    ELSE IF ~check_syntax(e, <<"s", "y", "m", "b", "o", "l">>, {<<",">>}, e.index) THEN [e EXCEPT !.ret = num_vars]
    ELSE VarDecLoop(
             DefineWritten(
                 write_checked_token(write_checked_token(e, <<"s", "y", "m", "b", "o", "l">>, {<<",">>}),
                                     <<"i", "d", "e", "n", "t", "i", "f", "i", "e", "r">>, {}),
                 var_type, <<"a", "r", "g", "u", "m", "e", "n", "t">>),
             var_type, num_vars + 1)

\* compile_var_dec(), its end; e.ret is num_vars
VarDecEnd(e) ==
    IF Failed(e) THEN e
    ELSE Returning(write_checked_token(e, <<"s", "y", "m", "b", "o", "l">>, {<<";">>}), <<"/", "v", "a", "r", "D", "e", "c">>, e.ret)

\* compile_var_dec() after the type; e.ret is var_type
VarDecNames(e) ==
    IF Failed(e) THEN e
    ELSE VarDecEnd(
             VarDecLoop(
                 DefineWritten(write_checked_token(e, <<"i", "d", "e", "n", "t", "i", "f", "i", "e", "r">>, {}), e.ret,
                               <<"a", "r", "g", "u", "m", "e", "n", "t">>),
                 e.ret, 1))

\* compile_var_dec(): returns num_vars
compile_var_dec(e) ==
    VarDecNames(write_checked_type(
                    write_checked_token(write_non_terminal_tag(e, <<"v", "a", "r", "D", "e", "c">>),
                                        <<"k", "e", "y", "w", "o", "r", "d">>, {<<"v", "a", "r">>}),
                    FALSE))

\* num_locals += the number that compile_var_dec() returned
AddLocals(e, num_locals) ==
    IF Failed(e) THEN e ELSE [e EXCEPT !.ret = num_locals + e.ret]

RECURSIVE VarDecsLoop(_)
\* The while loop of compile_subroutine_body: varDec*; e.ret is num_locals
VarDecsLoop(e) ==
    IF Failed(e) THEN e
    ELSE IF ~Readable(e, e.index) THEN Fail(e, get_contents_error(e, e.index))
    ELSE IF ~check_syntax(e, <<"k", "e", "y", "w", "o", "r", "d">>, {<<"v", "a", "r">>}, e.index) THEN e
    ELSE VarDecsLoop(AddLocals(Invoke("compile_var_dec", e, <<>>), e.ret))

\* num_locals = 0
NoLocals(e) == IF Failed(e) THEN e ELSE [e EXCEPT !.ret = 0]

\* compile_subroutine_body() after the declarations; e.ret is num_locals
BodyStatements(e, subroutine_name) ==
    IF Failed(e) THEN e
    ELSE write_non_terminal_tag(
             write_checked_token(
                 Invoke("compile_statements",
                        VMWriter_write_function(e, subroutine_name, e.ret), <<>>),
                 <<"s", "y", "m", "b", "o", "l">>, {<<"}">>}),
             <<"/", "s", "u", "b", "r", "o", "u", "t", "i", "n", "e", "B", "o", "d", "y">>)

\* compile_subroutine_body(subroutine_name)
compile_subroutine_body(e, subroutine_name) ==
    BodyStatements(
        VarDecsLoop(NoLocals(write_checked_token(
                                 write_non_terminal_tag(e, <<"s", "u", "b", "r", "o", "u", "t", "i", "n", "e", "B", "o", "d", "y">>),
                                 <<"s", "y", "m", "b", "o", "l">>, {<<"{">>}))),
        subroutine_name)

\* type varName of a parameter, and its definition; e.ret is var_type
Parameter(e) ==
    IF Failed(e) THEN e
    ELSE DefineWritten(write_checked_token(e, <<"i", "d", "e", "n", "t", "i", "f", "i", "e", "r">>, {}), e.ret, <<"a", "r", "g", "u", "m", "e", "n", "t">>)

RECURSIVE ParameterLoop(_, _)
\* The while loop of compile_parameter_list: (',' type varName)*
ParameterLoop(e, num_params) ==
    IF Failed(e) THEN e
    ELSE IF ~Readable(e, e.index) THEN Fail(e, get_contents_error(e, e.index))
    ELSE IF ~check_syntax(e, <<"s", "y", "m", "b", "o", "l">>, {<<",">>}, e.index)
    THEN [e EXCEPT !.ret = num_params]
    ELSE ParameterLoop(
             Parameter(write_checked_type(write_checked_token(e, <<"s", "y", "m", "b", "o", "l">>, {<<",">>}),
                                          FALSE)),
             num_params + 1)

\* compile_parameter_list() after its opening tag
ParameterListBody(e) ==
    IF Failed(e) THEN e
    ELSE IF ~Readable(e, e.index) THEN Fail(e, get_contents_error(e, e.index))
    ELSE IF ~check_type(e, FALSE, e.index) THEN Returning(e, <<"/", "p", "a", "r", "a", "m", "e", "t", "e", "r", "L", "i", "s", "t">>, 0)
    ELSE ReturningCount(ParameterLoop(Parameter(write_checked_type(e, FALSE)), 1),
                        <<"/", "p", "a", "r", "a", "m", "e", "t", "e", "r", "L", "i", "s", "t">>)

\* compile_parameter_list(): returns num_params
compile_parameter_list(e) ==
    ParameterListBody(write_non_terminal_tag(e, <<"p", "a", "r", "a", "m", "e", "t", "e", "r", "L", "i", "s", "t">>))

\* compile_subroutine() after the subroutine's name; e.ret is subroutine_name
SubroutineRest(e) ==
    IF Failed(e) THEN e
    ELSE write_non_terminal_tag(
             Invoke("compile_subroutine_body",
                    write_checked_token(
                        Invoke("compile_parameter_list",
                               write_checked_token(e, <<"s", "y", "m", "b", "o", "l">>, {<<"(">>}), <<>>),
                        <<"s", "y", "m", "b", "o", "l">>, {<<")">>}),
                    e.ret),
             <<"/", "s", "u", "b", "r", "o", "u", "t", "i", "n", "e", "D", "e", "c">>)

\* compile_subroutine()
compile_subroutine(e) ==
    SubroutineRest(
        write_checked_token(
            write_checked_type(
                write_checked_token(
                    write_non_terminal_tag(start_subroutine(e), <<"s", "u", "b", "r", "o", "u", "t", "i", "n", "e", "D", "e", "c">>),
                    <<"k", "e", "y", "w", "o", "r", "d">>, subroutine_tokens),
                TRUE),
            <<"i", "d", "e", "n", "t", "i", "f", "i", "e", "r">>, {}))

RECURSIVE ClassVarDecLoop(_, _, _)
\* The while loop of compile_class_var_dec: after the comma two identifiers
\* are written, the second one is defined
ClassVarDecLoop(e, var_type, var_kind) ==
    IF Failed(e) THEN e
    ELSE IF ~Readable(e, e.index) THEN Fail(e, get_contents_error(e, e.index))
    ELSE IF ~check_syntax(e, <<"s", "y", "m", "b", "o", "l">>, {<<",">>}, e.index) THEN e
    ELSE ClassVarDecLoop(
             DefineWritten(
                 write_checked_token(
                     write_checked_token(write_checked_token(e, <<"s", "y", "m", "b", "o", "l">>, {<<",">>}),
                                         <<"i", "d", "e", "n", "t", "i", "f", "i", "e", "r">>, {}),
                     <<"i", "d", "e", "n", "t", "i", "f", "i", "e", "r">>, {}),
                 var_type, var_kind),
             var_type, var_kind)

\* compile_class_var_dec() after the type; e.ret is var_type
ClassVarDecNames(e, var_kind) ==
    IF Failed(e) THEN e
    ELSE write_non_terminal_tag(
             write_checked_token(
                 ClassVarDecLoop(
                     DefineWritten(write_checked_token(e, <<"i", "d", "e", "n", "t", "i", "f", "i", "e", "r">>, {}), e.ret,
                                   var_kind),
                     e.ret, var_kind),
                 <<"s", "y", "m", "b", "o", "l">>, {<<";">>}),
             <<"/", "c", "l", "a", "s", "s", "V", "a", "r", "D", "e", "c">>)

\* compile_class_var_dec() after the kind; e.ret is var_kind
ClassVarDecType(e) ==
    IF Failed(e) THEN e ELSE ClassVarDecNames(write_checked_type(e, FALSE), e.ret)

\* compile_class_var_dec()
compile_class_var_dec(e) ==
    ClassVarDecType(write_checked_token(write_non_terminal_tag(e, <<"c", "l", "a", "s", "s", "V", "a", "r", "D", "e", "c">>),
                                        <<"k", "e", "y", "w", "o", "r", "d">>, class_var_dec_tokens))

RECURSIVE ClassLoop(_)
\* The while loop of compile_class: classVarDec* subroutineDec*
ClassLoop(e) ==
    IF Failed(e) THEN e
    ELSE IF ~Readable(e, e.index) THEN Fail(e, get_contents_error(e, e.index))
    ELSE IF check_syntax(e, <<"s", "y", "m", "b", "o", "l">>, {<<"}">>}, e.index) THEN e
    ELSE IF check_syntax(e, <<"k", "e", "y", "w", "o", "r", "d">>, class_var_dec_tokens, e.index)
    THEN ClassLoop(Invoke("compile_class_var_dec", e, <<>>))
    ELSE IF check_syntax(e, <<"k", "e", "y", "w", "o", "r", "d">>, subroutine_tokens, e.index)
    THEN ClassLoop(Invoke("compile_subroutine", e, <<>>))
    ELSE Fail(e, check_syntax_error(e, <<"k", "e", "y", "w", "o", "r", "d">>,
                                    class_var_dec_tokens \cup subroutine_tokens,
                                    TRUE, e.index))

\* compile_class() after the class's name; e.ret is the name
ClassBody(e) ==
    IF Failed(e) THEN e
    ELSE write_non_terminal_tag(
             write_checked_token(
                 ClassLoop(write_checked_token([e EXCEPT !.class_name = e.ret],
                                               <<"s", "y", "m", "b", "o", "l">>, {<<"{">>})),
                 <<"s", "y", "m", "b", "o", "l">>, {<<"}">>}),
             <<"/", "c", "l", "a", "s", "s">>)

\* compile_class()
compile_class(e) ==
    ClassBody(write_checked_token(
                  write_checked_token(write_non_terminal_tag(start_class(e), <<"c", "l", "a", "s", "s">>),
                                      <<"k", "e", "y", "w", "o", "r", "d">>, {<<"c", "l", "a", "s", "s">>}),
                  <<"i", "d", "e", "n", "t", "i", "f", "i", "e", "r">>, {}))

\* The methods that self.method(arg) resolves to
Invoke(method, e, arg) ==
    CASE method = "compile_class" -> compile_class(e)
      [] method = "compile_class_var_dec" -> compile_class_var_dec(e)
      [] method = "compile_subroutine" -> compile_subroutine(e)
      [] method = "compile_parameter_list" -> compile_parameter_list(e)
      [] method = "compile_subroutine_body" -> compile_subroutine_body(e, arg)
      [] method = "compile_var_dec" -> compile_var_dec(e)
      [] method = "compile_statements" -> compile_statements(e)
      [] method = "compile_do" -> compile_do(e)
      [] method = "compile_let" -> compile_let(e)
      [] method = "compile_while" -> compile_while(e)
      [] method = "compile_return" -> compile_return(e)
      [] method = "compile_if" -> compile_if(e)
      [] method = "compile_expression" -> compile_expression(e)
      [] method = "compile_term" -> compile_term(e)
      [] method = "compile_subroutine_call" -> compile_subroutine_call(e)
      [] method = "compile_expression_list" -> compile_expression_list(e, arg)

\* The engine as the variables hold it
Engine ==
    [token_list |-> j_token_list, line_list |-> j_line_list, index |-> j_index,
     code |-> j_code, class_name |-> j_class_name, vm |-> vw_code,
     class_table |-> class_table, subroutine_table |-> subroutine_table,
     number_table |-> number_table, ops |-> <<>>, ret |-> <<>>, err |-> NoError]

\* super().compile(token_list) on the engine e: the token list is taken
\* over, _index and _code are reset, and compile_class() runs
CompiledOn(e, token_list) ==
    Invoke("compile_class",
           [e EXCEPT !.token_list = [i \in 1..Len(token_list) |->
                                             token_list[i][2]],
                          !.line_list = [i \in 1..Len(token_list) |->
                                            token_list[i][1]],
                          !.index = 0,
                          !.code = <<>>],
           <<>>)

Compiled(token_list) == CompiledOn(Engine, token_list)

\* compile(token_list) of JackCompileEngine: super().compile(token_list),
\* then a copy of the writer's code is returned
JackCompile ==
    /\ j_calls < Len(j_input)
    /\ \E e \in {Compiled(j_input[j_calls + 1])} :
           /\ j_token_list' = e.token_list
           /\ j_line_list' = e.line_list
           /\ j_index' = e.index
           /\ j_code' = e.code
           /\ j_class_name' = e.class_name
           /\ vw_code' = e.vm
           /\ class_table' = e.class_table
           /\ subroutine_table' = e.subroutine_table
           /\ number_table' = e.number_table
           /\ j_err' = e.err
           /\ j_result' = IF Failed(e) THEN j_result ELSE e.vm
    /\ j_calls' = j_calls + 1
    /\ UNCHANGED <<j_input, asm_vars, vm_vars, tok_vars, st_op>>

-----------------------------------------------------------------------------
(***************************************************************************)
(* JackTokenizer (src/nnttpy/jackcompiler/tokenizer.py) and the loop of     *)
(* JackAnalyzer._tokenize_code that drives it.  A tokenizer is the record   *)
(* t of its attributes, with the exception that left the call in t.err.     *)
(***************************************************************************)
t_invalid == 0
t_keyword == 1
t_symbol == 2
t_integer_const == 3
t_string_const == 4
t_identifier == 5

xml_tag_table ==
    (t_keyword :> <<"k", "e", "y", "w", "o", "r", "d">>) @@ (t_symbol :> <<"s", "y", "m", "b", "o", "l">>)
        @@ (t_integer_const :> <<"i", "n", "t", "e", "g", "e", "r", "C", "o", "n", "s", "t", "a", "n", "t">>)
        @@ (t_string_const :> <<"s", "t", "r", "i", "n", "g", "C", "o", "n", "s", "t", "a", "n", "t">>) @@ (t_identifier :> <<"i", "d", "e", "n", "t", "i", "f", "i", "e", "r">>)

tokenizer_keyword ==
    {<<"c", "l", "a", "s", "s">>, <<"c", "o", "n", "s", "t", "r", "u", "c", "t", "o", "r">>, <<"f", "u", "n", "c", "t", "i", "o", "n">>, <<"m", "e", "t", "h", "o", "d">>, <<"f", "i", "e", "l", "d">>, <<"s", "t", "a", "t", "i", "c">>, <<"v", "a", "r">>,
     <<"i", "n", "t">>, <<"c", "h", "a", "r">>, <<"b", "o", "o", "l", "e", "a", "n">>, <<"v", "o", "i", "d">>, <<"t", "r", "u", "e">>, <<"f", "a", "l", "s", "e">>, <<"n", "u", "l", "l">>, <<"t", "h", "i", "s">>, <<"l", "e", "t">>,
     <<"d", "o">>, <<"i", "f">>, <<"e", "l", "s", "e">>, <<"w", "h", "i", "l", "e">>, <<"r", "e", "t", "u", "r", "n">>}

tokenizer_symbol ==
    {"{", "}", "(", ")", "[", "]", ".", ",", ";", "+", "-", "*", "/", "&", "|",
     "<", ">", "=", "~"}

int_lim == <<0, 32767>>

xml_table == (<<"<">> :> <<"&", "l", "t", ";">>) @@ (<<">">> :> <<"&", "g", "t", ";">>) @@ (<<"&">> :> <<"&", "a", "m", "p", ";">>)

\* The column the code setter leaves the tokenizer at
InitialColumn == 100

\* s[a:b]
Slice(s, a, b) == SubSeq(s, a + 1, IF b < Len(s) THEN b ELSE Len(s))

IndexError == Raise("IndexError", "index out of range", <<>>)

\* The tokenizer as the variables hold it
Tokenizer ==
    [code |-> tk_code, row_num |-> tk_row_num, column_num |-> tk_column_num,
     row |-> tk_row, column |-> tk_column, current_line |-> tk_current_line,
     current_token |-> tk_current_token, in_comment |-> tk_in_comment,
     err |-> NoError]

\* code = lines: len(code[0]) is taken of the raw first line, and code[0]
\* of an empty list raises after _code and _row_num are assigned
code_setter(t, code) ==
    IF Len(code) = 0
    THEN Fail([t EXCEPT !.code = code, !.row_num = 0], IndexError)
    ELSE [t EXCEPT !.code = code, !.row_num = Len(code),
                   !.column_num = Len(code[1]), !.row = 0,
                   !.column = InitialColumn]

has_more_token(t) == t.row < t.row_num \/ t.column < t.column_num

not_end_line(t) == t.column < t.column_num

\* self._current_line[self._column], which raises IndexError past the end
CharAt(t) == t.current_line[t.column + 1]

OutOfLine(t) == t.column >= Len(t.current_line)

\* End of line, go to next row
NextRow(t, line) ==
    [t EXCEPT !.current_line = line, !.column_num = Len(line),
              !.row = @ + 1, !.column = 0]

LoadRow(t) ==
    IF t.column >= t.column_num
    THEN NextRow(t, Strip(Split(t.code[t.row + 1], <<"/", "/">>)[1]))
    ELSE t

\* Start of comment: looked at on every call, whatever the column is
StartOfComment(t) ==
    IF t.column_num >= 2 /\ Slice(t.current_line, 0, 2) = <<"/", "*">>
    THEN [t EXCEPT !.in_comment = TRUE]
    ELSE t

\* End of comment
EndOfComment(t) ==
    IF t.in_comment /\ Slice(t.current_line, t.column, t.column + 2) = <<"*", "/">>
    THEN [t EXCEPT !.column = @ + 2, !.in_comment = FALSE]
    ELSE t

RECURSIVE SkipSpaces(_)
\* Skip spaces
SkipSpaces(t) ==
    IF ~not_end_line(t) THEN t
    ELSE IF OutOfLine(t) THEN Fail(t, IndexError)
    ELSE IF CharAt(t) = " " THEN SkipSpaces([t EXCEPT !.column = @ + 1])
    ELSE t

RECURSIVE ReadString(_, _)
\* String in double quotation: read up to the closing quotation mark
ReadString(t, token) ==
    IF OutOfLine(t) THEN Fail(t, IndexError)
    ELSE IF CharAt(t) = "\""
    THEN [t EXCEPT !.current_token = token \o <<"\"">>, !.column = @ + 1]
    ELSE ReadString([t EXCEPT !.column = @ + 1], token \o <<CharAt(t)>>)

RECURSIVE ReadWord(_, _)
\* Multiple-words symbol: read up to a space, a symbol or the end of line
ReadWord(t, token) ==
    IF ~not_end_line(t) THEN [t EXCEPT !.current_token = token]
    ELSE IF CharAt(t) = " " \/ CharAt(t) \in tokenizer_symbol
    THEN [t EXCEPT !.current_token = token]
    ELSE ReadWord([t EXCEPT !.column = @ + 1], token \o <<CharAt(t)>>)

ReadToken(t) ==
    IF Failed(t) THEN t
    ELSE IF not_end_line(t) /\ CharAt(t) \in tokenizer_symbol
    THEN [t EXCEPT !.current_token = <<CharAt(t)>>, !.column = @ + 1]
    ELSE IF not_end_line(t) /\ CharAt(t) = "\""
    THEN ReadString([t EXCEPT !.column = @ + 1], <<"\"">>)
    ELSE ReadWord(t, <<>>)

\* Middle of comment: one character is passed and no token is read
InCommentOrToken(t) ==
    IF t.in_comment THEN [t EXCEPT !.column = @ + 1]
    ELSE CHOOSE read \in {ReadToken(skipped) : skipped \in {SkipSpaces(t)}} : TRUE

ScanLine(t) ==
    IF t.column_num = 0 THEN t
    ELSE InCommentOrToken(EndOfComment(StartOfComment(t)))

\* advance()
JackTokenizer_advance(t) ==
    IF ~has_more_token(t)
    THEN Fail(t, Raise("RuntimeError", "No successive token exists.", <<>>))
    ELSE CHOOSE scanned \in {ScanLine(loaded) :
                                 loaded \in {LoadRow([t EXCEPT !.current_token = <<>>])}} : TRUE

is_all_numeric(token) ==
    /\ IsAllDigits(token)
    /\ int_lim[1] <= StrToInt(token)
    /\ StrToInt(token) <= int_lim[2]

is_string_const(token) == token[1] = "\"" /\ token[Len(token)] = "\""

IdentifierChars ==
    Digits \cup {UpperCase[i] : i \in DOMAIN UpperCase}
        \cup {LowerCase[i] : i \in DOMAIN LowerCase} \cup {"_"}

is_valid_identifier(token) == \A i \in 1..Len(token) : token[i] \in IdentifierChars

IsSymbolToken(token) == Len(token) = 1 /\ token[1] \in tokenizer_symbol

\* token_type: the exception it raises, and the type it returns otherwise
token_type_error(token) ==
    IF \/ token = <<>>
       \/ token \in tokenizer_keyword
       \/ IsSymbolToken(token)
       \/ is_all_numeric(token)
       \/ is_string_const(token)
       \/ is_valid_identifier(token)
    THEN NoError
    ELSE Raise("ValueError", "Unexpected token", token)

token_type(token) ==
    IF token = <<>> THEN t_invalid
    ELSE IF token \in tokenizer_keyword THEN t_keyword
    ELSE IF IsSymbolToken(token) THEN t_symbol
    ELSE IF is_all_numeric(token) THEN t_integer_const
    ELSE IF is_string_const(token) THEN t_string_const
    ELSE t_identifier

\* current_token: the quotation marks stripped, the XML entities replaced
EscapedToken(text) == IF text \in DOMAIN xml_table THEN xml_table[text] ELSE text

current_token(token) == EscapedToken(StripChars(token, {"\""}))

\* current_xml
XmlLine(tag, content) ==
    <<"<">> \o tag \o <<">", " ">> \o content \o <<" ", "<", "/">> \o tag \o <<">">>

current_xml(token) ==
    IF token_type(token) = t_invalid THEN <<>>
    ELSE XmlLine(xml_tag_table[token_type(token)], current_token(token))

\* The state after JackTokenizer() is constructed; files are the lists of
\* lines a client may assign to code, clients who may drive the tokenizer
TokInit(files, clients) ==
    /\ tk_input \in files
    /\ tk_client \in clients
    /\ tk_code = <<>>
    /\ tk_row_num = 0
    /\ tk_column_num = 0
    /\ tk_row = 0
    /\ tk_column = 0
    /\ tk_current_line = <<>>
    /\ tk_current_token = <<>>
    /\ tk_in_comment = FALSE
    /\ tk_pc = "new"
    /\ tk_token_list = <<>>
    /\ tk_calls = 0
    /\ tk_err = NoError

\* The tokenizer's attributes after a call that left it as t
TokenizerBecomes(t) ==
    /\ tk_code' = t.code
    /\ tk_row_num' = t.row_num
    /\ tk_column_num' = t.column_num
    /\ tk_row' = t.row
    /\ tk_column' = t.column
    /\ tk_current_line' = t.current_line
    /\ tk_current_token' = t.current_token
    /\ tk_in_comment' = t.in_comment

\* self._tokenizer.code = lines
TokSetCode ==
    /\ tk_pc = "new"
    /\ tk_client # "none"
    /\ \E t \in {code_setter(Tokenizer, tk_input)} :
           /\ TokenizerBecomes(t)
           /\ tk_err' = t.err
           /\ tk_pc' = IF Failed(t) THEN "done" ELSE "loop"
    /\ UNCHANGED <<tk_input, tk_client, tk_token_list, tk_calls, asm_vars,
                   vm_vars, jack_vars, st_op>>

\* What the loop body does after advance() returned with the token read:
\* current_xml is evaluated, JackAnalyzer then reads the attribute
\* current_line, which JackTokenizer does not have; a direct client takes
\* the row the token was read from
AfterAdvance(token, row) ==
    IF Failed([err |-> token_type_error(token)])
    THEN /\ tk_err' = token_type_error(token)
         /\ tk_pc' = "done"
         /\ UNCHANGED tk_token_list
    ELSE IF tk_client = "analyzer"
    THEN /\ tk_err' = Raise("AttributeError", "current_line", <<>>)
         /\ tk_pc' = "done"
         /\ UNCHANGED tk_token_list
    ELSE /\ tk_err' = NoError
         /\ tk_pc' = "loop"
         /\ tk_token_list' = IF current_xml(token) = <<>> THEN tk_token_list
                             ELSE Append(tk_token_list, <<row, current_xml(token)>>)

\* One turn of the loop: advance(), where RuntimeError ends the loop and
\* any other exception leaves it, then the loop body
TokenizeStep ==
    /\ tk_pc = "loop"
    /\ \E t \in {JackTokenizer_advance(Tokenizer)} :
           /\ TokenizerBecomes(t)
           /\ IF Failed(t)
              THEN /\ tk_err' = t.err
                   /\ tk_pc' = "done"
                   /\ UNCHANGED tk_token_list
              ELSE AfterAdvance(t.current_token, t.row)
    /\ tk_calls' = tk_calls + 1
    /\ UNCHANGED <<tk_input, tk_client, asm_vars, vm_vars, jack_vars, st_op>>

-----------------------------------------------------------------------------
(***************************************************************************)
(* Inputs of the assembler.                                                 *)
(***************************************************************************)

L_At2 == <<"@", "2">>
L_DeqA == <<"D", "=", "A">>
L_AtLOOP == <<"@", "L", "O", "O", "P">>
L_LabLOOP == <<"(", "L", "O", "O", "P", ")">>
L_Ati == <<"@", "i">>
L_Atsum == <<"@", "s", "u", "m">>
L_Jmp == <<"0", ";", "J", "M", "P">>
L_Blank == <<"\n">>
L_Spaced == <<" ", " ", "M", "D", " ", "=", " ", "D", "+", "M", " ", ";", " ", "J", "G", "T", " ", "/", "/", " ", "x", "\n">>
L_AtBig == <<"@", "3", "2", "7", "6", "8">>
L_BadDest == <<"X", "=", "D">>
L_BadJump == <<"D", ";", "J", "X", "X">>
L_BadComp == <<"D", "=", "D", "+", "2">>
L_AtSP == <<"@", "S", "P">>

\* The lines assembler inputs are made of
AsmLines ==
    {L_At2, L_DeqA, L_AtLOOP, L_LabLOOP, L_Ati, L_Atsum, L_Jmp, L_Blank,
     L_Spaced, L_AtBig, L_BadDest, L_BadJump, L_BadComp, L_AtSP}

MaxAsmLines == 3

SeqsUpTo(S, n) == UNION {[1..k -> S] : k \in 1..n}

\* [dest=]comp[;jump] for dest and jump either "null" (absent) or a mnemonic
CLine(d, c, j) ==
    (IF d = <<"n", "u", "l", "l">> THEN <<>> ELSE d \o <<"=">>) \o c
        \o (IF j = <<"n", "u", "l", "l">> THEN <<>> ELSE <<";">> \o j)

\* Every well-formed C-command, as a one-line input
CPrograms ==
    {<<CLine(d, c, j)>> : d \in DOMAIN dest_table, c \in comp_cand,
                          j \in DOMAIN jump_table}

AsmPrograms == SeqsUpTo(AsmLines, MaxAsmLines) \cup CPrograms

\* The state after Assembler(code): Parser.__init__ has fetched the first line
AsmInit(programs) ==
    /\ a_code \in programs
    /\ p_index = 1
    /\ p_current = CleanLine(a_code[1])
    /\ symbol_table = EmptyTable
    /\ l_table = EmptyTable
    /\ rom_address = 0
    /\ ram_address = 0
    /\ res = <<>>
    /\ a_pc = "idle"
    /\ a_result = <<>>
    /\ a_err = NoError
    /\ a_returns = <<>>

-----------------------------------------------------------------------------
(***************************************************************************)
(* Inputs of the VM translator, and the runs of the emitted code.           *)
(***************************************************************************)
\* The lines .vm files are made of (readlines keeps the line ends)
VMSourceLines ==
    {<<"a", "d", "d", "\n">>, <<" ", " ", "g", "t", " ", "/", "/", " ", "x", "\n">>,
     <<"p", "u", "s", "h", " ", "c", "o", "n", "s", "t", "a", "n", "t", " ", "7", "\n">>,
     <<"p", "o", "p", " ", "l", "o", "c", "a", "l", " ", "0", "\n">>,
     <<"l", "a", "b", "e", "l", " ", "L", "\n">>, <<"g", "o", "t", "o", " ", "L", "\n">>,
     <<"i", "f", "-", "g", "o", "t", "o", " ", "L", "\n">>,
     <<"f", "u", "n", "c", "t", "i", "o", "n", " ", "f", " ", "1", "\n">>,
     <<"c", "a", "l", "l", " ", "f", " ", "1", "\n">>, <<"r", "e", "t", "u", "r", "n", "\n">>,
     <<"\n">>, <<"/", "/", " ", "c", "\n">>, <<"f", "o", "o", "\n">>}

MaxVMLines == 2

VMFile(name, lines) == [name |-> name, lines |-> lines]

\* A path that is a file
SingleFile(name, lines) ==
    [is_dir |-> FALSE, name |-> name, files |-> <<VMFile(name, lines)>>]

\* A path that is a directory: files is what glob("*.vm") yields
Directory(files) == [is_dir |-> TRUE, name |-> <<"d", "i", "r">>, files |-> files]

TranslateInputs ==
    {SingleFile(<<"F", "o", "o", ".", "v", "m">>,
                ls) : ls \in SeqsUpTo(VMSourceLines, MaxVMLines) \cup {<<>>}}
        \cup {SingleFile(<<"F", "o", "o", ".", "t", "x", "t">>,
                         <<<<"a", "d", "d", "\n">>>>), SingleFile(<<"F", "o", "o">>, <<<<"a", "d", "d", "\n">>>>)}
        \cup {Directory(<<>>), Directory(<<VMFile(<<"F", "o", "o", ".", "v", "m">>,
                                                  <<<<"a", "d", "d", "\n">>>>)>>),
              Directory(<<VMFile(<<"B", "a", "r", ".", "v", "m">>,
                                 <<<<"a", "d", "d", "\n">>>>), VMFile(<<"F", "o", "o", ".", "v", "m">>, <<<<" ", " ", "g", "t", " ", "/", "/", " ", "x", "\n">>>>)>>)}

\* Files that use the segment static: one file, two files, and two files
\* whose names differ in case only
StaticInputs ==
    {SingleFile(<<"F", "o", "o", ".", "v", "m">>, <<<<"p", "u", "s", "h", " ", "s", "t", "a", "t", "i", "c", " ", "0", "\n">>, <<"p", "o", "p", " ", "s", "t", "a", "t", "i", "c", " ", "0", "\n">>>>),
     Directory(<<VMFile(<<"B", "a", "r", ".", "v", "m">>, <<<<"p", "u", "s", "h", " ", "s", "t", "a", "t", "i", "c", " ", "0", "\n">>>>),
                 VMFile(<<"F", "o", "o", ".", "v", "m">>, <<<<"p", "o", "p", " ", "s", "t", "a", "t", "i", "c", " ", "0", "\n">>>>)>>),
     Directory(<<VMFile(<<"F", "o", "o", ".", "v", "m">>, <<<<"p", "u", "s", "h", " ", "s", "t", "a", "t", "i", "c", " ", "0", "\n">>>>),
                 VMFile(<<"f", "o", "o", ".", "v", "m">>, <<<<"p", "o", "p", " ", "s", "t", "a", "t", "i", "c", " ", "0", "\n">>>>)>>)}

\* Files that hold comparisons: two in one file, one in each of two files,
\* and one in each of two files whose names differ in case only
CompareInputs ==
    {SingleFile(<<"F", "o", "o", ".", "v", "m">>, <<<<"e", "q", "\n">>, <<"\n">>, <<"e", "q", "\n">>>>),
     Directory(<<VMFile(<<"B", "a", "r", ".", "v", "m">>, <<<<"l", "t", "\n">>>>), VMFile(<<"F", "o", "o", ".", "v", "m">>, <<<<"l", "t", "\n">>>>)>>),
     Directory(<<VMFile(<<"F", "o", "o", ".", "v", "m">>, <<<<"g", "t", "\n">>>>), VMFile(<<"f", "o", "o", ".", "v", "m">>, <<<<"g", "t", "\n">>>>)>>)}

Call(op, a1, a2) == [op |-> op, a1 |-> a1, a2 |-> a2]

MemorySegments == {<<"l", "o", "c", "a", "l">>, <<"a", "r", "g", "u", "m", "e", "n", "t">>,
                   <<"t", "h", "i", "s">>, <<"t", "h", "a", "t">>,
                   <<"p", "o", "i", "n", "t", "e", "r">>, <<"t", "e", "m", "p">>}

\* The constants pushed
PushedConstants == {0, 7, 8, 2^15 - 1}

ArithmeticPlans == {<<Call("write_arithmetic", c, <<>>)>> : c \in ArithmeticNames}

PushPlans ==
    {<<Call("write_push", s, IntToStr(i))>> : s \in MemorySegments \cup {<<"s", "t", "a", "t", "i", "c">>}, i \in 0..MaxSegIndex}
        \cup {<<Call("write_push", <<"c", "o", "n", "s", "t", "a", "n", "t">>,
                     IntToStr(k))>> : k \in PushedConstants}

PopPlans ==
    {<<Call("write_pop", s, IntToStr(i))>> : s \in MemorySegments \cup {<<"s", "t", "a", "t", "i", "c">>}, i \in 0..MaxSegIndex}

\* push constant 7, push constant 8, add
SevenPlusEight ==
    <<Call("write_push", <<"c", "o", "n", "s", "t", "a", "n", "t">>,
           <<"7">>), Call("write_push", <<"c", "o", "n", "s", "t", "a", "n", "t">>, <<"8">>),
      Call("write_arithmetic", <<"a", "d", "d">>, <<>>)>>

OtherPlans ==
    {<<Call("write_init", <<>>, <<>>)>>, <<Call("write_label", <<"L">>, <<>>)>>,
     <<Call("write_goto", <<"L">>, <<>>)>>, <<Call("write_if", <<"L">>, <<>>)>>,
     <<Call("write_return", <<>>, <<>>)>>}

CallPlans == {<<Call("write_call", <<"f">>, IntToStr(n))>> : n \in 0..MaxArgs}

FunctionPlans == {<<Call("write_function", <<"f">>, IntToStr(n))>> : n \in 0..MaxArgs}

\* A label, or a function, followed by a jump, or a call, to it
LabelPlans ==
    {<<Call("write_label", <<"L">>, <<>>), Call("write_goto", <<"L">>, <<>>)>>,
     <<Call("write_label", <<"L">>, <<>>), Call("write_if", <<"L">>, <<>>)>>,
     <<Call("write_function", <<"f">>, <<"0">>), Call("write_call", <<"f">>, <<"0">>)>>}

Plans ==
    ArithmeticPlans \cup PushPlans \cup PopPlans \cup {SevenPlusEight} \cup OtherPlans
        \cup CallPlans \cup FunctionPlans \cup LabelPlans

\* The state after VMTranslator(), or VMCodeWriter(), is constructed
VMInit(inputs, plans) ==
    /\ w_code = <<>>
    /\ w_func_count = 1
    /\ w_arg_count = 0
    /\ w_line_num = 0
    /\ w_file_name = <<>>
    /\ vp_code = <<>>
    /\ vp_index = 0
    /\ vp_current = <<>>
    /\ \/ t_input \in inputs /\ plan = <<>>
       \/ t_input = NoInput /\ plan \in plans
    /\ t_file = 0
    /\ t_pc = "idle"
    /\ t_result = <<>>
    /\ t_err = NoError
    /\ w_calls = 0
    /\ m_rom = <<>>
    /\ m_sym = EmptyTable
    /\ m_A = 0
    /\ m_D = 0
    /\ m_ram = EmptyTable
    /\ m_ram0 = EmptyTable
    /\ m_pc = 0
    /\ m_state = "off"

-----------------------------------------------------------------------------
(***************************************************************************)
(* Inputs of the Jack compiler: token lists as JackTokenizer.current_xml    *)
(* writes them, "<tag> content </tag>", with their line numbers.            *)
(***************************************************************************)
Tok(tag, content) == <<"<">> \o tag \o <<">", " ">> \o content \o <<" ", "<", "/">> \o tag \o <<">">>

Kw(c) == Tok(<<"k", "e", "y", "w", "o", "r", "d">>, c)
Sym(c) == Tok(<<"s", "y", "m", "b", "o", "l">>, c)
Id(c) == Tok(<<"i", "d", "e", "n", "t", "i", "f", "i", "e", "r">>, c)
IntC(n) == Tok(<<"i", "n", "t", "e", "g", "e", "r", "C", "o", "n", "s", "t", "a", "n", "t">>, IntToStr(n))

\* The tokens q, all on line n
Numbered(q, n) == [i \in 1..Len(q) |-> <<n, q[i]>>]

\* class <name> { fields function void main(params) { locals body } }
ClassOf(name, fields, params, locals, body) ==
    Numbered(<<Kw(<<"c", "l", "a", "s", "s">>), Id(name), Sym(<<"{">>)>>, 1) \o Numbered(fields, 2)
        \o Numbered(<<Kw(<<"f", "u", "n", "c", "t", "i", "o", "n">>), Kw(<<"v", "o", "i", "d">>), Id(<<"m", "a", "i", "n">>), Sym(<<"(">>)>> \o params
                        \o <<Sym(<<")">>), Sym(<<"{">>)>>, 3)
        \o Numbered(locals, 4) \o Numbered(body, 5)
        \o Numbered(<<Sym(<<"}">>), Sym(<<"}">>)>>, 6)

\* class Main { fields function void main() { locals body } }
Program(fields, locals, body) == ClassOf(<<"M", "a", "i", "n">>, fields, <<>>, locals, body)

\* field Point p;
FieldP == <<Kw(<<"f", "i", "e", "l", "d">>), Id(<<"P", "o", "i", "n", "t">>), Id(<<"p">>), Sym(<<";">>)>>

\* var int x; var Point obj;
VarXObj ==
    <<Kw(<<"v", "a", "r">>), Kw(<<"i", "n", "t">>), Id(<<"x">>), Sym(<<";">>), Kw(<<"v", "a", "r">>), Id(<<"P", "o", "i", "n", "t">>), Id(<<"o", "b", "j">>),
      Sym(<<";">>)>>

Return(expr) == <<Kw(<<"r", "e", "t", "u", "r", "n">>)>> \o expr \o <<Sym(<<";">>)>>

Do(call) == <<Kw(<<"d", "o">>)>> \o call \o <<Sym(<<";">>)>>

\* The number of operators in an expression, and of arguments in a call
MaxOps == 2
MaxCallArgs == 2

RECURSIVE ChainFrom(_, _)
\* op_i t_(i+1) ... for the operators os from the i-th on; the term t_i is
\* the integer constant i
ChainFrom(os, i) ==
    IF i > Len(os) THEN <<>> ELSE <<Sym(os[i]), IntC(i + 1)>> \o ChainFrom(os, i + 1)

\* t1 op1 t2 op2 t3 ...
Chain(os) == <<IntC(1)>> \o ChainFrom(os, 1)

RECURSIVE Args(_)
\* k argument expressions: the integer constants 5, 6, ... separated by commas
Args(k) ==
    IF k = 0 THEN <<>>
    ELSE IF k = 1 THEN <<IntC(5)>>
    ELSE Args(k - 1) \o <<Sym(<<",">>), IntC(4 + k)>>

\* N.f(e1, ..., ek), or f(e1, ..., ek) for N = <<>>
CallOf(N, f, k) ==
    (IF N = <<>> THEN <<>> ELSE <<Id(N), Sym(<<".">>)>>)
        \o <<Id(f), Sym(<<"(">>)>> \o Args(k) \o <<Sym(<<")">>)>>

OpSeqs == SeqsUpTo(ops, MaxOps)

ChainInputs == {Program(<<>>, <<>>, Return(Chain(os))) : os \in OpSeqs}

UnaryInputs ==
    UNION {{Program(<<>>, <<>>, Return(<<Sym(u), IntC(1)>>)),
            Program(<<>>, <<>>, Return(<<Sym(u), IntC(1), Sym(<<"+">>), IntC(2)>>)),
            Program(<<>>, <<>>, Return(<<IntC(1), Sym(<<"+">>), Sym(u), IntC(2)>>)),
            Program(<<>>, <<>>,
                    Return(<<Sym(u), Sym(<<"(">>), IntC(1), Sym(<<"+">>), IntC(2), Sym(<<")">>)>>))}
               : u \in unary_ops}

ParenInputs ==
    {Program(<<>>, <<>>,
             Return(<<Sym(<<"(">>), IntC(1), Sym(<<"-">>), IntC(2), Sym(<<")">>), Sym(<<"-">>), IntC(3)>>)),
     Program(<<>>, <<>>,
             Return(<<IntC(1), Sym(<<"-">>), Sym(<<"(">>), IntC(2), Sym(<<"-">>), IntC(3), Sym(<<")">>)>>))}

\* Calls that are the subject of a do statement: on a var, on a field, on a
\* class, and without a dot
DoInputs ==
    UNION {{Program(<<>>, VarXObj, Do(CallOf(<<"o", "b", "j">>, <<"m", "o", "v", "e">>, k))),
            Program(FieldP, <<>>, Do(CallOf(<<"p">>, <<"m", "o", "v", "e">>, k))),
            Program(<<>>, <<>>, Do(CallOf(<<"M", "a", "t", "h">>, <<"m", "a", "x">>, k))),
            Program(<<>>, <<>>, Do(CallOf(<<>>, <<"d", "r", "a", "w">>, k)))} : k \in 0..MaxCallArgs}

\* Calls that are terms of an expression
TermCallInputs ==
    UNION {{Program(<<>>, VarXObj, Return(CallOf(<<"o", "b", "j">>, <<"g", "e", "t">>, k))),
            Program(<<>>, <<>>, Return(CallOf(<<"M", "a", "t", "h">>, <<"m", "a", "x">>, k) \o <<Sym(<<"+">>), IntC(3)>>)),
            Program(<<>>, <<>>, Return(<<IntC(3), Sym(<<"+">>)>> \o CallOf(<<"M", "a", "t", "h">>, <<"m", "a", "x">>, k)))}
               : k \in 0..MaxCallArgs}

\* let, if and while statements, a variable and a keyword as terms
StatementInputs ==
    {Program(<<>>, VarXObj, <<Kw(<<"l", "e", "t">>), Id(<<"x">>), Sym(<<"=">>), IntC(1), Sym(<<"+">>), IntC(2),
                             Sym(<<";">>)>>),
     Program(<<>>, VarXObj, <<Kw(<<"l", "e", "t">>), Id(<<"x">>), Sym(<<"[">>), IntC(1), Sym(<<"]">>), Sym(<<"=">>),
                             IntC(2), Sym(<<";">>)>>),
     Program(<<>>, <<>>, <<Kw(<<"l", "e", "t">>), Id(<<"y">>), Sym(<<"=">>), IntC(1), Sym(<<";">>)>>),
     Program(<<>>, VarXObj, Return(<<Id(<<"x">>), Sym(<<"+">>), Kw(<<"t", "r", "u", "e">>)>>)),
     Program(<<>>, <<>>, <<Kw(<<"i", "f">>), Sym(<<"(">>), IntC(1), Sym(<<")">>), Sym(<<"{">>)>> \o Return(<<>>)
                             \o <<Sym(<<"}">>), Kw(<<"e", "l", "s", "e">>), Sym(<<"{">>)>> \o Return(<<IntC(2)>>)
                             \o <<Sym(<<"}">>)>>),
     Program(<<>>, <<>>, <<Kw(<<"w", "h", "i", "l", "e">>), Sym(<<"(">>), IntC(1), Sym(<<")">>), Sym(<<"{">>)>>
                             \o Do(CallOf(<<"M", "a", "t", "h">>, <<"m", "a", "x">>, 1)) \o <<Sym(<<"}">>)>>)}

\* Two declarations of one kind, the second one of v: static int w; static
\* int v; and likewise field and var
DeclTwo(keyword) ==
    <<Kw(keyword), Kw(<<"i", "n", "t">>), Id(<<"w">>), Sym(<<";">>), Kw(keyword), Kw(<<"i", "n", "t">>), Id(<<"v">>),
      Sym(<<";">>)>>

\* int w, int v
ParamsTwo == <<Kw(<<"i", "n", "t">>), Id(<<"w">>), Sym(<<",">>), Kw(<<"i", "n", "t">>), Id(<<"v">>)>>

\* The class whose main has the body given and in which v is the second
\* variable of its kind
LetProgram(kind, body) ==
    CASE kind = <<"s", "t", "a", "t", "i", "c">> -> Program(DeclTwo(<<"s", "t", "a", "t", "i", "c">>), <<>>, body)
      [] kind = <<"f", "i", "e", "l", "d">> -> Program(DeclTwo(<<"f", "i", "e", "l", "d">>), <<>>, body)
      [] kind = <<"a", "r", "g", "u", "m", "e", "n", "t">> -> ClassOf(<<"M", "a", "i", "n">>, <<>>, ParamsTwo, <<>>, body)
      [] kind = <<"v", "a", "r">> -> Program(<<>>, DeclTwo(<<"v", "a", "r">>), body)

\* let v = 7;  and  let v[2] = 7;
LetV == <<Kw(<<"l", "e", "t">>), Id(<<"v">>), Sym(<<"=">>), IntC(7), Sym(<<";">>)>>
LetVIndexed ==
    <<Kw(<<"l", "e", "t">>), Id(<<"v">>), Sym(<<"[">>), IntC(2), Sym(<<"]">>), Sym(<<"=">>), IntC(7), Sym(<<";">>)>>

LetInputs ==
    UNION {{LetProgram(kind, LetV), LetProgram(kind, LetVIndexed)}
               : kind \in possible_kind}

\* Token lists that are no class.  return 1 + 2; cut after 1 +, and cut
\* before the closing brace of the class
CutInTerm == SubSeq(Program(<<>>, <<>>, Return(Chain(<<<<"+">>>>))), 1, 12)

CutBeforeEnd == SubSeq(Program(<<>>, <<>>, Return(Chain(<<<<"+">>>>))), 1, 15)

\* return 1 without its semicolon
NoSemicolon == Program(<<>>, <<>>, <<Kw(<<"r", "e", "t", "u", "r", "n">>), IntC(1)>>)

\* class Main { var
VarInClass == Numbered(<<Kw(<<"c", "l", "a", "s", "s">>), Id(<<"M", "a", "i", "n">>), Sym(<<"{">>), Kw(<<"v", "a", "r">>)>>, 1)

\* var int x; let x = ;
MissingTerm ==
    Program(<<>>, <<Kw(<<"v", "a", "r">>), Kw(<<"i", "n", "t">>), Id(<<"x">>), Sym(<<";">>)>>,
            <<Kw(<<"l", "e", "t">>), Id(<<"x">>), Sym(<<"=">>), Sym(<<";">>)>>)

BrokenInputs == {CutInTerm, CutBeforeEnd, NoSemicolon, VarInClass, MissingTerm}

JackPrograms ==
    ChainInputs \cup UnaryInputs \cup ParenInputs \cup DoInputs \cup TermCallInputs
        \cup StatementInputs \cup BrokenInputs \cup LetInputs

\* The state after JackCompileEngine() is constructed; calls is the list of
\* the token lists that a client is going to pass to compile()
JackInit(calls) ==
    /\ j_token_list = <<>>
    /\ j_line_list = <<>>
    /\ j_index = 0
    /\ j_code = <<>>
    /\ j_class_name = <<>>
    /\ vw_code = <<>>
    /\ class_table = EmptyTable
    /\ subroutine_table = EmptyTable
    /\ number_table = InitialNumbers
    /\ j_input \in calls
    /\ j_calls = 0
    /\ j_result = <<>>
    /\ j_err = NoError
    /\ st_op = NoCall

-----------------------------------------------------------------------------
(***************************************************************************)
(* Specifications.                                                        *)
(***************************************************************************)
\* The VM translator and the code writer constructed and left alone
VMIdle == VMInit({NoInput}, {})

\* The Jack compile engine constructed and left alone
JackIdle == JackInit({<<>>})

\* The tokenizer constructed and left alone
TokIdle == TokInit({<<>>}, {"none"})

Init == AsmInit(AsmPrograms) /\ VMIdle /\ JackIdle /\ TokIdle

Next ==
    \/ Assemble
    \/ CreateSymbolTableStep
    \/ ConvertCodeBegin
    \/ ConvertCodeStep

\* The assembler on short programs and on every well-formed C-command
Spec == Init /\ [][Next]_vars

\* @k for every k that fits 15 bits
AddressPrograms == {<<(<<"@">> \o IntToStr(k))>> : k \in 0..(2^15 - 1)}

InitAddr == AsmInit(AddressPrograms) /\ VMIdle /\ JackIdle /\ TokIdle

\* The assembler on short programs, assemble() called up to
\* MaxAssembleCalls times on the same object
NextAgain ==
    \/ Assemble
    \/ AssembleAgain
    \/ CreateSymbolTableStep
    \/ ConvertCodeBegin
    \/ ConvertCodeStep

InitAgain == AsmInit(SeqsUpTo(AsmLines, MaxAsmLines)) /\ VMIdle /\ JackIdle /\ TokIdle

SpecAgain == InitAgain /\ [][NextAgain]_vars

\* The assembler on every one-line program @k
SpecAddr == InitAddr /\ [][Next]_vars

\* The assembler constructed on a one-line program and left alone
InitVM ==
    /\ AsmInit({<<L_At2>>})
    /\ VMInit(TranslateInputs \cup StaticInputs \cup CompareInputs, Plans)
    /\ JackIdle
    /\ TokIdle

NextVM ==
    \/ Translate
    \/ TranslateOpenFile
    \/ TranslateStep
    \/ TranslateReturn
    \/ WriterCall
    \/ MachineLoad
    \/ CpuStep

\* The VM translator on short files, a client of the code writer making a
\* few calls, and the emitted code run on the Hack machine
SpecVM == InitVM /\ [][NextVM]_vars

\* class A { static int w, v; ... let v = 7; }, the same with arguments, and
\* class B { function void main() { return 1; } }
ClassA == LetProgram(<<"s", "t", "a", "t", "i", "c">>, LetV)

ClassArgs == LetProgram(<<"a", "r", "g", "u", "m", "e", "n", "t">>, LetV)

ClassB == ClassOf(<<"B">>, <<>>, <<>>, <<>>, Return(<<IntC(1)>>))

\* Two classes compiled one after the other
TwoClasses == {<<a, b>> : a \in {ClassA, ClassArgs, ClassB}, b \in {ClassA, ClassArgs, ClassB}}

\* The Jack compile engine and its clients, each making one compile() call
\* on a new engine, or two calls
InitJack ==
    /\ AsmInit({<<L_At2>>})
    /\ VMIdle
    /\ JackInit({<<p>> : p \in JackPrograms} \cup TwoClasses)
    /\ TokIdle

NextJack == JackCompile

SpecJack == InitJack /\ [][NextJack]_vars

(***************************************************************************)
(* Inputs of the tokenizer: lists of the lines of a Jack file.              *)
(***************************************************************************)
T_Let == <<"l", "e", "t", " ", "x", " ", "=", " ", "1", ";">>
T_Comment == <<"/", "*", " ", "c", " ", "*", "/">>
T_CommentThenTokens == <<"/", "*", " ", "c", " ", "*", "/", " ", "y", " ", "z">>
T_TokensThenComment == <<"x", ";", " ", "/", "*", " ", "c", " ", "*", "/">>
T_Open == <<"/", "*", " ", "a">>
T_Close == <<"b", " ", "*", "/">>
T_LineComment == <<"d", "o", " ", "f", "(", ")", ";", " ", "/", "/", " ", "n", "o", "t", "e">>
T_Blank == <<>>
T_MaxInt == <<"3", "2", "7", "6", "7">>
T_Overflow == <<"x", " ", "=", " ", "3", "2", "7", "6", "8", ";">>
T_String == <<"\"", "a", "b", "\"", " ", "<", " ", "5">>
T_Unterminated == <<"\"", "a", "b">>
T_BadToken == <<"a", "#", "b">>

TokLines ==
    {T_Let, T_Comment, T_CommentThenTokens, T_TokensThenComment, T_Open,
     T_Close, T_LineComment, T_Blank, T_MaxInt, T_Overflow, T_String,
     T_Unterminated, T_BadToken}

MaxTokLines == 2

\* let x; and a line comment: a line of n characters
LongLine(n) ==
    <<"l", "e", "t", " ", "x", ";", " ", "/", "/">> \o [i \in 1..(n - 9) |-> "-"]

\* files of a few lines, the empty file, and files whose first line is as
\* long as the column the code setter starts at, or one character longer
TokFiles ==
    SeqsUpTo(TokLines, MaxTokLines)
        \cup {<<>>, <<LongLine(InitialColumn)>>, <<LongLine(InitialColumn + 1)>>,
              <<LongLine(InitialColumn), T_Let>>, <<LongLine(InitialColumn + 1), T_Let>>}

InitTok ==
    /\ AsmInit({<<L_At2>>})
    /\ VMIdle
    /\ JackIdle
    /\ TokInit(TokFiles, {"analyzer", "direct"})

NextTok ==
    \/ TokSetCode
    \/ TokenizeStep

\* The tokenizer driven by JackAnalyzer's loop and by a direct client that
\* runs the same loop
SpecTok == InitTok /\ [][NextTok]_vars

\* The same, where a client that can make its next call makes it
SpecTokLive == SpecTok /\ WF_vars(NextTok)

(***************************************************************************)
(* A client of the symbol table: the names it uses, and how many symbols    *)
(* of one kind it defines at most.                                          *)
(***************************************************************************)
TableNames == {<<"x">>, <<"y">>}

MaxDefines == 2

NextTable ==
    \/ TableStartClass
    \/ TableStartSubroutine
    \/ \E name \in TableNames, kind \in possible_kind :
           /\ number_table[kind] < MaxDefines
           /\ TableDefine(name, <<"i", "n", "t">>, kind)
    \/ \E key \in TableNames : TableLookup(key)

\* The symbol table of a compile engine that is left alone, and its client
InitTable == AsmInit({<<L_At2>>}) /\ VMIdle /\ JackIdle /\ TokIdle

SpecTable == InitTable /\ [][NextTable]_vars


-----------------------------------------------------------------------------
(* Properties of the assembler.                                             *)

IsBit(c) == c \in {"0", "1"}

\* The cleaned text of line i of the input
Cmd(i) == CleanLine(a_code[i])

\* Whether line i is an A-command or a C-command
EmitsCode(i) == command_type(Cmd(i)) \in {a_command, c_command}

\* The number of A- and C-commands among the first n lines
CountAC(n) == Cardinality({i \in 1..n : EmitsCode(i)})

\* C1: when assemble() returns, the result has one line per A- or C-command
\* of the input, in input order (a C-command's line starts with 111, an
\* A-command's with 0), none for other lines, and every line is 16
\* characters, each 0 or 1.
C1_OutputShape ==
    a_pc = "returned" =>
        /\ Len(a_result) = CountAC(Len(a_code))
        /\ \A i \in 1..Len(a_code) :
              EmitsCode(i) /\ CountAC(i) <= Len(a_result) =>
                  LET line == a_result[CountAC(i)]
                  IN  IF command_type(Cmd(i)) = c_command
                      THEN SubSeq(line, 1, 3) = <<"1", "1", "1">>
                      ELSE line[1] = "0"
        /\ \A n \in 1..Len(a_result) :
              /\ Len(a_result[n]) = 16
              /\ \A b \in 1..Len(a_result[n]) : IsBit(a_result[n][b])

\* C2: in pass 1 the ROM counter is the number of A- and C-commands already
\* walked (0 at the start), every label walked is bound to the number of A-
\* and C-commands before it, and in pass 2 that value is the index of the
\* next line to be emitted.
C2_RomCounter ==
    /\ a_pc = "pass1" =>
          /\ rom_address = CountAC(p_index - 1)
          /\ \A j \in 1..(p_index - 1) :
                command_type(Cmd(j)) = l_command =>
                    /\ symbol(Cmd(j)) \in DOMAIN l_table
                    /\ l_table[symbol(Cmd(j))] = CountAC(j - 1)
    /\ a_pc = "pass2" /\ command_type(p_current) = l_command =>
          /\ symbol(p_current) \in DOMAIN symbol_table
          /\ symbol_table[symbol(p_current)] = Bin15(Len(res))
          /\ Len(res) = CountAC(p_index - 1)

C2_Witness ==
    /\ a_code = <<L_AtLOOP, L_LabLOOP, L_Jmp>>
    /\ a_pc = "returned"
    /\ symbol_table[<<"L", "O", "O", "P">>] = Bin15(1)
    /\ a_result = <<<<"0", "0", "0", "0", "0", "0", "0", "0", "0", "0", "0", "0", "0", "0", "0", "1">>, <<"1", "1", "1", "0", "1", "0", "1", "0", "1", "0", "0", "0", "0", "1", "1", "1">>>>

\* The labels the input defines
LabelsOf == {symbol(Cmd(j)) : j \in {i \in 1..Len(a_code) :
                                       command_type(Cmd(i)) = l_command}}

\* Whether line i is an A-command with a symbolic (non-numeric) operand
IsSymbolicA(i) ==
    command_type(Cmd(i)) = a_command /\ ~IsAllDigits(SymbolText(Cmd(i)))

\* Whether line i is the first use of a name that pass 1 left unbound
IsFirstUse(i) ==
    /\ IsSymbolicA(i)
    /\ SymbolText(Cmd(i)) \notin DOMAIN InitialSymbols \cup LabelsOf
    /\ \A j \in 1..(i - 1) :
          IsSymbolicA(j) => SymbolText(Cmd(j)) # SymbolText(Cmd(i))

\* The line of the first use of the name used on line i
FirstUseOf(i) ==
    CHOOSE j \in 1..i : IsFirstUse(j) /\ SymbolText(Cmd(j)) = SymbolText(Cmd(i))

\* The number of names newly bound on the first n lines
CountNew(n) == Cardinality({i \in 1..n : IsFirstUse(i)})

\* C3: in pass 2, the names bound by pass 1 (predefined symbols and labels,
\* also labels defined further down) keep their address and do not move the
\* RAM allocator; the allocator is 16 plus the number of names newly bound so
\* far; a newly bound name gets 16 plus the number of names bound before it,
\* and every use of it is encoded with that address.
C3_Variables ==
    a_pc \in {"pass2", "returned"} =>
        /\ \A k \in DOMAIN l_table :
              k \in DOMAIN symbol_table /\ symbol_table[k] = Bin15(l_table[k])
        /\ LET done == IF a_pc = "returned" THEN Len(a_code) ELSE p_index - 1
           IN  /\ ram_address = ram_predefined + CountNew(done)
               /\ \A i \in 1..done :
                     IsSymbolicA(i) /\ CountAC(i) <= Len(res) =>
                         LET x == SymbolText(Cmd(i))
                         IN  res[CountAC(i)] = <<"0">> \o
                                 (IF x \in DOMAIN l_table
                                  THEN Bin15(l_table[x])
                                  ELSE Bin15(ram_predefined
                                               + CountNew(FirstUseOf(i)) - 1))

C3_Witness ==
    /\ a_code = <<L_Ati, L_Atsum, L_Ati>>
    /\ a_pc = "returned"
    /\ ram_address = 18
    /\ a_result = <<<<"0", "0", "0", "0", "0", "0", "0", "0", "0", "0", "0", "1", "0", "0", "0", "0">>, <<"0", "0", "0", "0", "0", "0", "0", "0", "0", "0", "0", "1", "0", "0", "0", "1">>, <<"0", "0", "0", "0", "0", "0", "0", "0", "0", "0", "0", "1", "0", "0", "0", "0">>>>

\* The bit tables of the Hack instruction set, as the glossary gives them
GlossaryComp(c) ==
    LET k == [i \in 1..Len(c) |-> IF c[i] = "M" THEN "A" ELSE c[i]]
    IN  CASE k = <<"0">> -> <<"1", "0", "1", "0", "1", "0">>
          [] k = <<"1">> -> <<"1", "1", "1", "1", "1", "1">>
          [] k = <<"-", "1">> -> <<"1", "1", "1", "0", "1", "0">>
          [] k = <<"D">> -> <<"0", "0", "1", "1", "0", "0">>
          [] k = <<"A">> -> <<"1", "1", "0", "0", "0", "0">>
          [] k = <<"!", "D">> -> <<"0", "0", "1", "1", "0", "1">>
          [] k = <<"!", "A">> -> <<"1", "1", "0", "0", "0", "1">>
          [] k = <<"-", "D">> -> <<"0", "0", "1", "1", "1", "1">>
          [] k = <<"-", "A">> -> <<"1", "1", "0", "0", "1", "1">>
          [] k = <<"D", "+", "1">> -> <<"0", "1", "1", "1", "1", "1">>
          [] k = <<"A", "+", "1">> -> <<"1", "1", "0", "1", "1", "1">>
          [] k = <<"D", "-", "1">> -> <<"0", "0", "1", "1", "1", "0">>
          [] k = <<"A", "-", "1">> -> <<"1", "1", "0", "0", "1", "0">>
          [] k = <<"D", "+", "A">> -> <<"0", "0", "0", "0", "1", "0">>
          [] k = <<"D", "-", "A">> -> <<"0", "1", "0", "0", "1", "1">>
          [] k = <<"A", "-", "D">> -> <<"0", "0", "0", "1", "1", "1">>
          [] k = <<"D", "&", "A">> -> <<"0", "0", "0", "0", "0", "0">>
          [] k = <<"D", "|", "A">> -> <<"0", "1", "0", "1", "0", "1">>

GlossaryDest(d) ==
    CASE d = <<"n", "u", "l", "l">> -> <<"0", "0", "0">>
      [] d = <<"M">> -> <<"0", "0", "1">>
      [] d = <<"D">> -> <<"0", "1", "0">>
      [] d = <<"M", "D">> -> <<"0", "1", "1">>
      [] d = <<"A">> -> <<"1", "0", "0">>
      [] d = <<"A", "M">> -> <<"1", "0", "1">>
      [] d = <<"A", "D">> -> <<"1", "1", "0">>
      [] d = <<"A", "M", "D">> -> <<"1", "1", "1">>

GlossaryJump(j) ==
    CASE j = <<"n", "u", "l", "l">> -> <<"0", "0", "0">>
      [] j = <<"J", "G", "T">> -> <<"0", "0", "1">>
      [] j = <<"J", "E", "Q">> -> <<"0", "1", "0">>
      [] j = <<"J", "G", "E">> -> <<"0", "1", "1">>
      [] j = <<"J", "L", "T">> -> <<"1", "0", "0">>
      [] j = <<"J", "N", "E">> -> <<"1", "0", "1">>
      [] j = <<"J", "L", "E">> -> <<"1", "1", "0">>
      [] j = <<"J", "M", "P">> -> <<"1", "1", "1">>

\* C4: a one-line input [dest=]comp[;jump] built from the 28 comp mnemonics,
\* an absent or listed dest and an absent or listed jump is never rejected,
\* and assembles to 111, the a bit (1 iff the comp mnemonic contains M), and
\* the glossary's comp, dest and jump bits (000 for an absent part).
C4_CEncoding ==
    Len(a_code) = 1 =>
        \A d \in DOMAIN dest_table, j \in DOMAIN jump_table :
            \A c \in comp_cand :
                a_code[1] = CLine(d, c, j) =>
                    /\ a_pc \notin {"raised_pass1", "raised_pass2"}
                    /\ a_pc = "returned" =>
                          a_result =
                              << <<"1", "1", "1">>
                                 \o (IF \E i \in 1..Len(c) : c[i] = "M"
                                     THEN <<"1">> ELSE <<"0">>)
                                 \o GlossaryComp(c) \o GlossaryDest(d)
                                 \o GlossaryJump(j) >>

C4_Witness ==
    /\ a_code = << <<"M", "D", "=", "D", "+", "M", ";", "J", "G", "T">> >>
    /\ a_pc = "returned"
    /\ a_result = << <<"1", "1", "1", "1", "0", "0", "0", "0", "1", "0", "0", "1", "1", "0", "0", "1">> >>

\* The 15-bit unsigned binary representation of k, most significant bit first
Unsigned15(k) == [i \in 1..15 |-> DigitChar((k \div 2^(15 - i)) % 2)]

\* C5: for every k in 0..32767 the one-line input @k assembles, without an
\* error, to 0 followed by the 15-bit unsigned binary representation of k.
C5_AEncoding ==
    LET k == StrToInt(Tail(a_code[1]))
    IN  (/\ Len(a_code) = 1
         /\ k \in 0..(2^15 - 1)
         /\ a_code[1] = <<"@">> \o IntToStr(k)) =>
            /\ a_pc \notin {"raised_pass1", "raised_pass2"}
            /\ a_pc = "returned" => a_result = << <<"0">> \o Unsigned15(k) >>

C5_Witness ==
    /\ a_code = << <<"@", "3", "2", "7", "6", "7">> >>
    /\ a_pc = "returned"
    /\ a_result = << <<"0", "1", "1", "1", "1", "1", "1", "1", "1", "1", "1", "1", "1", "1", "1", "1">> >>

\* Whether two L-commands of the input define the same name
HasDuplicateLabel ==
    \E i, j \in 1..Len(a_code) :
        /\ i < j
        /\ command_type(Cmd(i)) = l_command
        /\ command_type(Cmd(j)) = l_command
        /\ symbol(Cmd(i)) = symbol(Cmd(j))

\* C6: when two L-commands define the same name, assemble() never gets past
\* pass 1 (it raises while walking to the second definition at the latest)
\* and returns nothing.
C6_DuplicateLabel ==
    HasDuplicateLabel =>
        /\ a_pc \in {"idle", "pass1", "raised_pass1"}
        /\ a_result = <<>>
        /\ a_pc = "pass1" =>
              ~\E i, j \in 1..(p_index - 1) :
                  /\ i < j
                  /\ command_type(Cmd(i)) = l_command
                  /\ command_type(Cmd(j)) = l_command
                  /\ symbol(Cmd(i)) = symbol(Cmd(j))

C6_Witness ==
    /\ a_code = <<L_LabLOOP, L_At2, L_LabLOOP>>
    /\ a_pc = "raised_pass1"
    /\ a_err = Raise("ValueError", "Duplicated label symbol", <<"L", "O", "O", "P">>)
    /\ p_index = 3

\* C7: the exception raised for an unknown comp, dest or jump mnemonic or
\* for a duplicate label names the offending source line: it carries the
\* line's text or the line's number.
C7_ErrorNamesLine ==
    (/\ a_pc \in {"raised_pass1", "raised_pass2"}
     /\ a_err.what \in {"Unknown comp command", "Unknown dest command",
                        "Unknown jump command", "Duplicated label symbol"})
        => \/ a_err.arg = a_code[p_index]
           \/ a_err.arg = Cmd(p_index)
           \/ a_err.arg = IntToStr(p_index)
           \/ a_err.arg = IntToStr(p_index - 1)

-----------------------------------------------------------------------------
(***************************************************************************)
(* Properties of the VM translator and of the code it emits.                *)
(***************************************************************************)
\* Whether the cleaned line is a command of one of the nine VM command kinds
IsVMCommand(cur) ==
    /\ Len(cur) > 0
    /\ Words(cur)[1] \in {<<"p", "u", "s", "h">>, <<"p", "o", "p">>,
                          <<"l", "a", "b", "e", "l">>, <<"g", "o", "t", "o">>,
                          <<"i", "f", "-", "g", "o", "t", "o">>,
                          <<"f", "u", "n", "c", "t", "i", "o", "n">>,
                          <<"r", "e", "t", "u", "r", "n">>, <<"c", "a", "l", "l">>}
                            \cup ArithmeticNames

\* Whether translate() was left by an exception raised while a line was
\* being lowered
RaisedOnLine ==
    /\ t_pc = "raised"
    /\ vp_index > 0
    /\ t_err.what \notin {"Expected .vm file", "No successive command exists", "Empty code"}

\* C8: translate() lowers every line that is a command of one of the nine
\* kinds (push, pop, arithmetic, label, goto, if-goto, function, call,
\* return) by the matching writer operation; only a line that is none of the
\* nine kinds (and is not blank or a comment) halts the translation with an
\* error.
C8_Lowering == RaisedOnLine => ~IsVMCommand(vp_current)

\* The machine has reached the closing loop (END) of the program
AtEnd == m_state = "running" /\ m_pc >= Len(m_rom) - 2

\* SP when the program started, and the two topmost words of the stack then
sp0 == m_ram0[0]
x0 == m_ram0[sp0 - 2]
y0 == m_ram0[sp0 - 1]

\* Whether the program run is the code of the one arithmetic command cmd,
\* written by a client's call or by translate() from a one-line file
SingleArithmetic(cmd) ==
    \/ plan = <<Call("write_arithmetic", cmd, <<>>)>>
    \/ /\ t_input # NoInput /\ ~t_input.is_dir
       /\ Len(t_input.files[1].lines) = 1
       /\ VMCleanLine(t_input.files[1].lines[1]) = cmd

\* The positions of the 1 bits of the word v
BitsOf(v) == {i \in 0..15 : (v \div 2^i) % 2 = 1}

RECURSIVE WordOf(_)
\* The word whose 1 bits are at the positions in S
WordOf(S) == IF S = {} THEN 0 ELSE LET i == CHOOSE i \in S : TRUE IN 2^i + WordOf(S \ {i})

\* The word for true (-1) and for false (0)
Truth(b) == IF b THEN 2^16 - 1 ELSE 0

\* x op y, or op y, in 16 bits; a comparison is decided by the sign of the
\* 16-bit difference x - y
ArithmeticResult(cmd, x, y) ==
    CASE cmd = <<"a", "d", "d">> -> (x + y) % 2^16
      [] cmd = <<"s", "u", "b">> -> (x - y) % 2^16
      [] cmd = <<"a", "n", "d">> -> WordOf(BitsOf(x) \cap BitsOf(y))
      [] cmd = <<"o", "r">> -> WordOf(BitsOf(x) \cup BitsOf(y))
      [] cmd = <<"n", "e", "g">> -> (0 - y) % 2^16
      [] cmd = <<"n", "o", "t">> -> WordOf((0..15) \ BitsOf(y))
      [] cmd = <<"e", "q">> -> Truth(Signed((x - y) % 2^16) = 0)
      [] cmd = <<"g", "t">> -> Truth(Signed((x - y) % 2^16) > 0)
      [] cmd = <<"l", "t">> -> Truth(Signed((x - y) % 2^16) < 0)

\* x op y, or op y, in 16 bits; a comparison is that of the two's
\* complement values of x and y
ComparedResult(cmd, x, y) ==
    CASE cmd = <<"e", "q">> -> Truth(Signed(x) = Signed(y))
      [] cmd = <<"g", "t">> -> Truth(Signed(x) > Signed(y))
      [] cmd = <<"l", "t">> -> Truth(Signed(x) < Signed(y))
      [] OTHER -> ArithmeticResult(cmd, x, y)

\* What the run of one arithmetic command leaves, result[cmd] being the word expected of cmd
ArithmeticLeaves(result) ==
    \A cmd \in ArithmeticNames :
        SingleArithmetic(cmd) /\ m_state # "off" =>
            /\ m_state = "running"
            /\ AtEnd =>
                 IF cmd \in {<<"n", "e", "g">>, <<"n", "o", "t">>}
                 THEN m_ram[0] = sp0 /\ m_ram[sp0 - 1] = result[cmd]
                 ELSE m_ram[0] = sp0 - 1 /\ m_ram[sp0 - 2] = result[cmd]

\* push constant 7, push constant 8, add from SP = 256 ends with RAM[0] = 257
\* and RAM[256] = 15
SevenPlusEightLeaves ==
    plan = SevenPlusEight /\ m_state # "off" /\ sp0 = StackBase =>
        /\ m_state = "running"
        /\ AtEnd => m_ram[0] = 257 /\ m_ram[256] = 15

SegmentAddress(seg, i) ==
    CASE seg = <<"l", "o", "c", "a", "l">> -> m_ram0[1] + i
      [] seg = <<"a", "r", "g", "u", "m", "e", "n", "t">> -> m_ram0[2] + i
      [] seg = <<"t", "h", "i", "s">> -> m_ram0[3] + i
      [] seg = <<"t", "h", "a", "t">> -> m_ram0[4] + i
      [] seg = <<"p", "o", "i", "n", "t", "e", "r">> -> 3 + i
      [] seg = <<"t", "e", "m", "p">> -> 5 + i

C11_CallFrame ==
    \A n \in 0..MaxArgs :
        plan = <<Call("write_call", <<"f">>, IntToStr(n))>> /\ w_calls = 1 =>
            /\ \E i \in 1..(Len(w_code) - 2) :
                  /\ w_code[i] = <<"@", "f">>
                  /\ w_code[i + 1] = <<"0", ";", "J", "M", "P">>
                  /\ IsLabelDecl(w_code[i + 2])
                  /\ w_code[1] = <<"@">> \o LabelName(w_code[i + 2])
            /\ m_state # "fault"
            /\ (m_state = "running" /\ m_pc < Len(m_rom) /\ m_rom[m_pc + 1] = <<"@", "f">>) =>
                  /\ m_ram[0] = sp0 + 5
                  /\ m_ram[sp0] = m_sym[Tail(m_rom[1])]
                  /\ \A r \in 1..4 : m_ram[sp0 + r] = m_ram0[r]
                  /\ m_ram[2] = sp0 - n
                  /\ m_ram[1] = sp0 + 5

\* The frame pointer when the program started: LCL
frame0 == m_ram0[1]

\* C12: run on the Hack machine with FRAME = LCL at entry and n arguments,
\* n >= 0, the code of return executes every instruction and leaves by a jump
\* to the word that was at FRAME-5 when it started, with the popped return
\* value at the address ARG held, SP that address + 1, and THAT, THIS, ARG,
\* LCL the words that were at FRAME-1, FRAME-2, FRAME-3, FRAME-4.
C12_Return ==
    (/\ plan = <<Call("write_return", <<>>, <<>>)>>
     /\ m_state # "off"
     /\ m_ram0 \in {FrameRam(n, 7) : n \in 0..MaxArgs}) =>
        /\ m_state # "fault"
        /\ ~(AtEnd /\ m_pc < Len(m_rom))
        /\ m_state = "left" =>
              /\ m_pc = m_ram0[frame0 - 5]
              /\ m_ram[m_ram0[2]] = y0
              /\ m_ram[0] = m_ram0[2] + 1
              /\ m_ram[4] = m_ram0[frame0 - 1]
              /\ m_ram[3] = m_ram0[frame0 - 2]
              /\ m_ram[2] = m_ram0[frame0 - 3]
              /\ m_ram[1] = m_ram0[frame0 - 4]

\* return has run in a function called without arguments: the return value
\* is where the return address was, and the machine has jumped to that
\* address
C12_Witness ==
    /\ plan = <<Call("write_return", <<>>, <<>>)>>
    /\ m_ram0 = FrameRam(0, 7)
    /\ m_state = "left"
    /\ m_pc = SavedFrame[1]
    /\ m_ram[StackBase] = 7 /\ m_ram[0] = StackBase + 1

\* The symbol that the first call of the plan names
Target == plan[1].a1

\* C13: label L emits the declaration (L); function f n emits the declaration
\* (f) followed by n pushes of 0; so the symbol that a following goto, if-goto
\* or call names is a label of the program, bound to a ROM address.
C13_Labels ==
    /\ (plan # <<>> /\ plan[1].op = "write_label" /\ w_calls = 1) =>
           w_code = << <<"(">> \o Target \o <<")">> >>
    /\ (plan # <<>> /\ plan[1].op = "write_function" /\ w_calls = 1) =>
           w_code = PushZeros(<< <<"(">> \o Target \o <<")">> >>, StrToInt(plan[1].a2))
    /\ (plan \in LabelPlans /\ w_calls = Len(plan)) =>
           /\ Target \in DOMAIN LabelTable(w_code)
           /\ m_state = "running" => m_sym[Target] = LabelTable(w_code)[Target]

\* The lines of c that are the line l
Occurrences(c, l) == {i \in 1..Len(c) : c[i] = l}

\* C14: for a directory the output begins with a prologue that sets SP to 256
\* and calls Sys.init (one jump to Sys.init, reached with SP = 256 + 5 for the
\* saved frame), emitted once, before the code of any file; for a single .vm
\* file the output holds no such prologue.
C14_Prologue ==
    /\ (t_input # NoInput /\ t_input.is_dir /\ t_pc # "idle") =>
           /\ Len(w_code) >= 4
           /\ SubSeq(w_code, 1, 4) = <<<<"@", "2", "5", "6">>, <<"D", "=", "A">>, <<"@", "S", "P">>, <<"M", "=", "D">>>>
           /\ Cardinality(Occurrences(w_code, <<"@", "2", "5", "6">>)) = 1
           /\ \E i \in 5..(Len(w_code) - 1) :
                 /\ Occurrences(w_code, <<"@", "S", "y", "s", ".", "i", "n", "i", "t">>) = {i}
                 /\ w_code[i + 1] = <<"0", ";", "J", "M", "P">>
    /\ (t_input # NoInput /\ ~t_input.is_dir) =>
           /\ Occurrences(w_code, <<"@", "S", "y", "s", ".", "i", "n", "i", "t">>) = {}
           /\ Occurrences(w_code, <<"@", "2", "5", "6">>) = {}
    /\ (t_input # NoInput /\ t_input.is_dir /\ m_state # "off") =>
           /\ m_state # "fault"
           /\ (/\ m_state = "running" /\ m_pc < Len(m_rom)
               /\ m_rom[m_pc + 1] = <<"@", "S", "y", "s", ".", "i", "n", "i", "t">>) => m_ram[0] = StackBase + 5

\* Whether the cleaned line is a push or a pop of the segment static
IsStaticLine(cur) ==
    /\ Len(cur) > 0
    /\ Len(Words(cur)) = 3
    /\ Words(cur)[1] \in {<<"p", "u", "s", "h">>, <<"p", "o", "p">>}
    /\ Words(cur)[2] = <<"s", "t", "a", "t", "i", "c">>

\* The line that addresses static i of the file named name: the symbol is
\* the file_name that translate() gives the writer, a dot, and the index
StaticSymbol(name, i) == <<"@">> \o Upper(Stem(name)) \o <<".">> \o i

\* C15: a push or pop of static i in file F is translated, and the output
\* addresses the symbol F.i for it; the same index in two different files
\* gives two different symbols.
C15_Static ==
    /\ RaisedOnLine => ~IsStaticLine(vp_current)
    /\ (t_input # NoInput /\ t_pc = "returned") =>
           \A k \in 1..Len(t_input.files) :
               \A j \in 1..Len(t_input.files[k].lines) :
                   LET cur == VMCleanLine(t_input.files[k].lines[j])
                   IN  IsStaticLine(cur) =>
                           \E l \in 1..Len(w_code) :
                               w_code[l] = StaticSymbol(t_input.files[k].name, Words(cur)[3])
    /\ (t_input # NoInput /\ t_pc # "idle") =>
           \A k1, k2 \in 1..Len(t_input.files) :
               t_input.files[k1].name # t_input.files[k2].name =>
                   StaticSymbol(t_input.files[k1].name, <<"0">>)
                       # StaticSymbol(t_input.files[k2].name, <<"0">>)

\* Whether the line l begins with the text prefix
StartsWith(l, prefix) == Len(l) >= Len(prefix) /\ SubSeq(l, 1, Len(prefix)) = prefix

\* The declaration of the label that the A-instruction l names
DeclarationOf(l) == <<"(">> \o Tail(l) \o <<")">>

\* C16: in the output of one translation every eq, gt, lt and call line has
\* been given its labels; no label is declared twice; the jump of a
\* comparison names the TRUE_JUMP label declared four lines on and the
\* FALSE_NO_JUMP label declared at the end of the same comparison; and the
\* return address pushed names a RETURN label that is declared.
C16_Labels ==
    /\ RaisedOnLine =>
           Words(vp_current)[1] \notin {<<"e", "q">>, <<"g", "t">>, <<"l", "t">>, <<"c", "a", "l", "l">>}
    /\ (t_input # NoInput /\ t_pc = "returned") =>
           /\ ~DeclaresTwice(w_code)
           /\ \A i \in 1..Len(w_code) :
                 /\ StartsWith(w_code[i], <<"@", "T", "R", "U", "E", "_", "J", "U", "M", "P", ".">>) =>
                        /\ i + 7 <= Len(w_code)
                        /\ w_code[i + 5] = DeclarationOf(w_code[i])
                        /\ w_code[i + 7] = DeclarationOf(w_code[i + 3])
                        /\ StartsWith(w_code[i + 3], <<"@", "F", "A", "L", "S", "E", "_", "N", "O", "_", "J", "U", "M", "P", ".">>)
                 /\ StartsWith(w_code[i], <<"@", "R", "E", "T", "U", "R", "N">>) =>
                        Cardinality(Occurrences(w_code, DeclarationOf(w_code[i]))) = 1

-----------------------------------------------------------------------------
(***************************************************************************)
(* The Jack compiler's expressions and calls.                              *)
(***************************************************************************)

\* compile() has been called once, with the token list p
CompiledFrom(p) == j_input = <<p>> /\ j_calls = 1

\* class Main { function void main() { return expr; } }
ReturnOf(expr) == Program(<<>>, <<>>, Return(expr))

\* The writer's lines after the first one, which the function's declaration
\* writes
BodyCode == Tail(vw_code)

PushLine(n) == <<"p", "u", "s", "h", " ", "c", "o", "n", "s", "t", "a", "n", "t", " ">> \o IntToStr(n)

\* The VM operation of a binary and of a unary operator
VMOperation(op) ==
    CASE op = <<"+">> -> <<"a", "d", "d">>
      [] op = <<"-">> -> <<"s", "u", "b">>
      [] op = <<"&", "a", "m", "p", ";">> -> <<"a", "n", "d">>
      [] op = <<"|">> -> <<"o", "r">>
      [] op = <<"&", "l", "t", ";">> -> <<"l", "t">>
      [] op = <<"&", "g", "t", ";">> -> <<"g", "t">>
      [] op = <<"=">> -> <<"e", "q">>
      [] op = <<"*">> -> <<"c", "a", "l", "l", " ", "M", "a", "t", "h", ".", "m", "u", "l", "t", "i", "p", "l", "y", " ", "2">>
      [] op = <<"/">> -> <<"c", "a", "l", "l", " ", "M", "a", "t", "h", ".", "d", "i", "v", "i", "d", "e", " ", "2">>

UnaryOperation(op) == IF op = <<"-">> THEN <<"n", "e", "g">> ELSE <<"n", "o", "t">>

RECURSIVE PostfixFrom(_, _)
\* code(t_(i+1)), op_i, code(t_(i+2)), op_(i+1), ...
PostfixFrom(os, i) ==
    IF i > Len(os) THEN <<>>
    ELSE <<PushLine(i + 1), VMOperation(os[i])>> \o PostfixFrom(os, i + 1)

\* The postfix code of t1 op1 t2 op2 t3 ..., grouped from the left
Postfix(os) == <<PushLine(1)>> \o PostfixFrom(os, 1)

\* The operators whose operation the engine writes as VMOperation gives it
PlainOps == {<<"+">>, <<"-">>, <<"&", "a", "m", "p", ";">>, <<"|">>, <<"=">>, <<"*">>}

\* C17: an expression t1 op1 t2 op2 t3 is compiled to code(t1), code(t2),
\* op1, code(t3), op2, that is grouped from the left without precedence, and
\* a unary operator's operation comes directly after the code of the one term
\* it prefixes, before the operand of a binary operator that follows.  It is
\* stated for the operators of PlainOps, and for u 1 + 2 and 1 + u 2.
C17_LeftToRight ==
    /\ \A os \in OpSeqs :
           (\A i \in 1..Len(os) : os[i] \in PlainOps)
               /\ CompiledFrom(ReturnOf(Chain(os)))
               => j_err.exc = "none" /\ BodyCode = Postfix(os)
    /\ \A u \in unary_ops :
           /\ CompiledFrom(ReturnOf(<<Sym(u), IntC(1), Sym(<<"+">>), IntC(2)>>))
                  => /\ j_err.exc = "none"
                     /\ BodyCode = <<PushLine(1), UnaryOperation(u),
                                     PushLine(2), <<"a", "d", "d">>>>
           /\ CompiledFrom(ReturnOf(<<IntC(1), Sym(<<"+">>), Sym(u), IntC(2)>>))
                  => /\ j_err.exc = "none"
                     /\ BodyCode = <<PushLine(1), PushLine(2),
                                     UnaryOperation(u), <<"a", "d", "d">>>>


\* C18: for every operator, an expression that uses it compiles without an
\* error and the operator's VM operation is written: + add, - sub, & and,
\* | or, < lt, > gt, = eq, * call Math.multiply 2, / call Math.divide 2,
\* unary - neg, unary ~ not.
C18_Operators ==
    /\ \A op \in ops :
           CompiledFrom(ReturnOf(Chain(<<op>>)))
               => /\ j_err.exc = "none"
                  /\ BodyCode = <<PushLine(1), PushLine(2), VMOperation(op)>>
    /\ \A u \in unary_ops :
           CompiledFrom(ReturnOf(<<Sym(u), IntC(1)>>))
               => /\ j_err.exc = "none"
                  /\ BodyCode = <<PushLine(1), UnaryOperation(u)>>


RECURSIVE ArgumentCode(_)
\* The code of the k argument expressions of Args(k)
ArgumentCode(k) ==
    IF k = 0 THEN <<>> ELSE ArgumentCode(k - 1) \o <<PushLine(4 + k)>>

CallLine(name, n) == <<"c", "a", "l", "l", " ">> \o name \o <<" ">> \o IntToStr(n)

\* C19: for a call N.f(e1, ..., ek), k >= 0, where N is a variable of the
\* symbol table, push <N's segment> <N's index> is written, then the code of
\* e1..ek in order, then call T.f k+1 with T the declared type of N; where N
\* is no variable, the code of e1..ek and then call N.f k.  The calls are the
\* subject of a do statement, so pop temp 0 follows; obj is the second var of
\* main (local 1), p the first field of the class (this 0).
C19_Calls ==
    \A k \in 0..MaxCallArgs :
        /\ CompiledFrom(Program(<<>>, VarXObj, Do(CallOf(<<"o", "b", "j">>, <<"m", "o", "v", "e">>, k))))
               => /\ j_err.exc = "none"
                  /\ BodyCode = <<<<"p", "u", "s", "h", " ", "l", "o", "c", "a", "l", " ", "1">>>> \o ArgumentCode(k)
                                    \o <<CallLine(<<"P", "o", "i", "n", "t", ".", "m", "o", "v", "e">>, k + 1), <<"p", "o", "p", " ", "t", "e", "m", "p", " ", "0">>>>
        /\ CompiledFrom(Program(FieldP, <<>>, Do(CallOf(<<"p">>, <<"m", "o", "v", "e">>, k))))
               => /\ j_err.exc = "none"
                  /\ BodyCode = <<<<"p", "u", "s", "h", " ", "t", "h", "i", "s", " ", "0">>>> \o ArgumentCode(k)
                                    \o <<CallLine(<<"P", "o", "i", "n", "t", ".", "m", "o", "v", "e">>, k + 1), <<"p", "o", "p", " ", "t", "e", "m", "p", " ", "0">>>>
        /\ CompiledFrom(Program(<<>>, <<>>, Do(CallOf(<<"M", "a", "t", "h">>, <<"m", "a", "x">>, k))))
               => /\ j_err.exc = "none"
                  /\ BodyCode = ArgumentCode(k)
                                    \o <<CallLine(<<"M", "a", "t", "h", ".", "m", "a", "x">>, k), <<"p", "o", "p", " ", "t", "e", "m", "p", " ", "0">>>>


IsCall(l) == StartsWith(l, <<"c", "a", "l", "l", " ">>)

\* A call line of the code is directly followed by pop temp 0
PoppedCall(code, i) ==
    IsCall(code[i]) /\ i < Len(code) /\ code[i + 1] = <<"p", "o", "p", " ", "t", "e", "m", "p", " ", "0">>

\* C20: pop temp 0 is written directly after a call exactly when the call is
\* the subject of a do statement; a call that is a term of an expression is
\* not followed by pop temp 0.
C20_ReturnValue ==
    /\ \A p \in DoInputs :
           CompiledFrom(p)
               => /\ j_err.exc = "none"
                  /\ \E i \in 1..Len(BodyCode) : IsCall(BodyCode[i])
                  /\ \A i \in 1..Len(BodyCode) :
                         IsCall(BodyCode[i]) => PoppedCall(BodyCode, i)
    /\ \A p \in TermCallInputs :
           CompiledFrom(p)
               => /\ j_err.exc = "none"
                  /\ \E i \in 1..Len(BodyCode) : IsCall(BodyCode[i])
                  /\ \A i \in 1..Len(BodyCode) : ~PoppedCall(BodyCode, i)

-----------------------------------------------------------------------------
(***************************************************************************)
(* The Jack compiler's statements, errors and repeated use.                *)
(***************************************************************************)

\* The memory segment of a kind of variable
SegmentOf(kind) ==
    CASE kind = <<"s", "t", "a", "t", "i", "c">> -> <<"s", "t", "a", "t", "i", "c">>
      [] kind = <<"f", "i", "e", "l", "d">> -> <<"t", "h", "i", "s">>
      [] kind = <<"a", "r", "g", "u", "m", "e", "n", "t">> -> <<"a", "r", "g", "u", "m", "e", "n", "t">>
      [] kind = <<"v", "a", "r">> -> <<"l", "o", "c", "a", "l">>

\* C21: let v = e; is compiled to the code of e and pop <segment> <index> of
\* v, and let v[i] = e; to code(i), push <segment> <index> of v, add,
\* code(e), pop temp 0, pop pointer 1, push temp 0, pop that 0, where the
\* segment is static for kind static, this for field, argument for argument
\* and local for var (a variable declared with var), and the index is v's
\* index within its kind.  Here v is the second variable of its kind.
C21_Let ==
    \A kind \in possible_kind :
        /\ CompiledFrom(LetProgram(kind, LetV))
               => /\ j_err.exc = "none"
                  /\ BodyCode = <<PushLine(7), <<"p", "o", "p", " ">> \o SegmentOf(kind) \o <<" ", "1">>>>
        /\ CompiledFrom(LetProgram(kind, LetVIndexed))
               => /\ j_err.exc = "none"
                  /\ BodyCode = <<PushLine(2), <<"p", "u", "s", "h", " ">> \o SegmentOf(kind) \o <<" ", "1">>,
                                  <<"a", "d", "d">>, PushLine(7), <<"p", "o", "p", " ", "t", "e", "m", "p", " ", "0">>, <<"p", "o", "p", " ", "p", "o", "i", "n", "t", "e", "r", " ", "1">>,
                                  <<"p", "u", "s", "h", " ", "t", "e", "m", "p", " ", "0">>, <<"p", "o", "p", " ", "t", "h", "a", "t", " ", "0">>>>

\* C24: compile returns output only for a token sequence that the grammar
\* of a class derives; on any other sequence it stops at the first token
\* that violates the grammar and raises SyntaxError carrying the line number
\* of that token.  This covers an expression whose term is missing,
\* let x = ; (the token ; on line 5), and input that ends before the closing
\* brace of the class.
C24_SyntaxError ==
    /\ \A p \in BrokenInputs :
           CompiledFrom(p) => j_err.exc = "SyntaxError" /\ j_result = <<>>
    /\ CompiledFrom(MissingTerm) => j_err.arg[3] = <<"5">>
    /\ CompiledFrom(NoSemicolon) => j_err.arg[3] = <<"6">>
    /\ CompiledFrom(VarInClass) => j_err.arg[3] = <<"1">>

\* A JackCompileEngine as its constructor leaves it
NewEngine ==
    [token_list |-> <<>>, line_list |-> <<>>, index |-> 0, code |-> <<>>,
     class_name |-> <<>>, vm |-> <<>>, class_table |-> EmptyTable,
     subroutine_table |-> EmptyTable, number_table |-> InitialNumbers,
     ops |-> <<>>, ret |-> <<>>, err |-> NoError]

\* C28: the VM code that compile returns for a token list depends on that
\* token list only: when one engine compiles a class and then a second one,
\* what it returns for the second is what a new engine returns for it, with
\* no line written for the first class and with the indices of the symbols
\* starting at 0 for every kind.
C28_FreshResult ==
    Len(j_input) = 2 /\ j_calls = 2 /\ ~Failed(CompiledOn(NewEngine, j_input[2]))
        => /\ j_err = NoError
           /\ j_result = CompiledOn(NewEngine, j_input[2]).vm


\* C29: a second call of assemble() on the same Assembler returns the same
\* list of binary lines as the first call, for every input on which the
\* first call returns.
C29_SecondCall ==
    /\ Len(a_returns) >= 1 => a_err = NoError
    /\ Len(a_returns) = 2 => a_returns[2] = a_returns[1]

-----------------------------------------------------------------------------
(***************************************************************************)
(* Properties of the symbol table.                                          *)
(***************************************************************************)

\* C25: the lookup of a name searches the subroutine scope first and the
\* class scope then: for a name defined in both scopes table[name] is the
\* entry of the subroutine scope, for a name defined in one scope it is that
\* entry, and for a name defined in neither the lookup fails and
\* name in table is false.
C25_Lookup ==
    st_op.op = "getitem"
        => IF st_op.key \in DOMAIN subroutine_table
           THEN /\ st_op.err = NoError
                /\ st_op.found
                /\ st_op.ret = subroutine_table[st_op.key]
           ELSE IF st_op.key \in DOMAIN class_table
           THEN /\ st_op.err = NoError
                /\ st_op.found
                /\ st_op.ret = class_table[st_op.key]
           ELSE st_op.err.exc = "KeyError" /\ ~st_op.found

\* C26: after every start_subroutine() the subroutine scope is empty, the
\* next symbol defined with kind argument and the next one defined with kind
\* var each get index 0, and the entries of the class scope and the counters
\* of static and field are as they were.
C26_StartSubroutine ==
    [][TableStartSubroutine
         => /\ subroutine_table' = EmptyTable
            /\ number_table'[<<"a", "r", "g", "u", "m", "e", "n", "t">>] = 0
            /\ number_table'[<<"v", "a", "r">>] = 0
            /\ class_table' = class_table
            /\ number_table'[<<"s", "t", "a", "t", "i", "c">>] = number_table[<<"s", "t", "a", "t", "i", "c">>]
            /\ number_table'[<<"f", "i", "e", "l", "d">>] = number_table[<<"f", "i", "e", "l", "d">>]]_vars

\* The entries of a kind that the table holds
EntriesOf(kind) ==
    {el \in {class_table[n] : n \in DOMAIN class_table}
              \cup {subroutine_table[n] : n \in DOMAIN subroutine_table} :
         el.kind = kind}

\* C27: after any sequence of start_class, start_subroutine and define, for
\* each kind the indices of the entries of that kind held in the table are
\* exactly 0, 1, ..., n-1, where n is the number of these entries.
C27_Contiguous ==
    \A kind \in possible_kind :
        {el.number : el \in EntriesOf(kind)} = 0..(Cardinality(EntriesOf(kind)) - 1)


-----------------------------------------------------------------------------
(***************************************************************************)
(* Properties of the tokenizer.                                             *)
(***************************************************************************)

\* A lexeme that consists of decimal digits only
IsNumber(token) == token # <<>> /\ \A i \in 1..Len(token) : token[i] \in Digits

\* C22: a lexeme that consists of digits only is classified as an integer
\* constant exactly when its value lies in 0..32767; a lexeme of digits with
\* a larger value is rejected with an error and never put into another
\* category.  The state is the one after the advance() that read the lexeme
\* and the classification of it by the loop body.
C22_IntegerRange ==
    tk_client = "direct" /\ tk_calls > 0 /\ IsNumber(tk_current_token)
        /\ tk_err.exc # "RuntimeError"
        => IF StrToInt(tk_current_token) <= 2^15 - 1
           THEN /\ tk_err = NoError
                /\ Last(tk_token_list)[2]
                       = <<"<", "i", "n", "t", "e", "g", "e", "r", "C", "o", "n", "s", "t", "a", "n", "t", ">", " ">> \o tk_current_token \o <<" ", "<", "/", "i", "n", "t", "e", "g", "e", "r", "C", "o", "n", "s", "t", "a", "n", "t", ">">>
           ELSE tk_err.exc = "ValueError"

RECURSIVE UncommentFrom(_, _, _, _)
\* The line without its comments, from character i on, and whether a block
\* comment is still open at its end; inside tells whether one is open at i.
\* A block comment counts as a space, a line comment ends the line.
UncommentFrom(line, i, inside, kept) ==
    IF i > Len(line) THEN <<kept, inside>>
    ELSE IF inside
    THEN IF OccursAt(line, <<"*", "/">>, i)
         THEN UncommentFrom(line, i + 2, FALSE, kept \o <<" ">>)
         ELSE UncommentFrom(line, i + 1, TRUE, kept)
    ELSE IF OccursAt(line, <<"/", "/">>, i) THEN <<kept, FALSE>>
    ELSE IF OccursAt(line, <<"/", "*">>, i) THEN UncommentFrom(line, i + 2, TRUE, kept)
    ELSE UncommentFrom(line, i + 1, FALSE, kept \o <<line[i]>>)

RECURSIVE Uncommented(_, _)
\* The lines of a file with every comment taken out
Uncommented(file, inside) ==
    IF file = <<>> THEN <<>>
    ELSE <<UncommentFrom(file[1], 1, inside, <<>>)[1]>>
             \o Uncommented(Tail(file), UncommentFrom(file[1], 1, inside, <<>>)[2])

RECURSIVE TokensFrom(_, _)
RECURSIVE TokensAfter(_, _)
\* The tokens the loop collects from a tokenizer t on, and the exception
\* that ends the loop
TokensFrom(t, list) == TokensAfter(JackTokenizer_advance(t), list)

TokensAfter(t, list) ==
    IF Failed(t) THEN <<list, t.err.exc>>
    ELSE IF Failed([err |-> token_type_error(t.current_token)])
    THEN <<list, "ValueError">>
    ELSE IF current_xml(t.current_token) = <<>> THEN TokensFrom(t, list)
    ELSE TokensFrom(t, Append(list, current_xml(t.current_token)))

\* The tokens of a file that holds no comment
TokensOf(file) == TokensFrom(code_setter(Tokenizer, file), <<>>)

\* The tokens the client has collected, without their lines
Collected == [i \in 1..Len(tk_token_list) |-> tk_token_list[i][2]]

\* C23: the tokenizer yields no token from inside a comment /* ... */,
\* whether the comment starts at the beginning of a line or after tokens and
\* whether it ends on the same or on a later line, and it yields every token
\* outside the comments, the tokens after */ on the same line and on all
\* later lines included: the tokens of a file are the tokens of the file
\* with its comments taken out.
C23_Comments ==
    tk_client = "direct" /\ tk_pc = "done" /\ tk_input # <<>>
        /\ TokensOf(Uncommented(tk_input, FALSE))[2] = "RuntimeError"
        => /\ tk_err.exc = "RuntimeError"
           /\ Collected = TokensOf(Uncommented(tk_input, FALSE))[1]

\* A call of advance() that returns
AdvanceReturns ==
    /\ TokenizeStep
    /\ ~Failed(JackTokenizer_advance(Tokenizer))

\* C30: after code is assigned a finite list of lines the first advance()
\* starts reading at row 0, and every advance() that returns has moved to
\* the next row or has consumed at least one character of the current one,
\* so a loop that calls advance() until RuntimeError terminates, having
\* visited every row.
C30_Terminates ==
    /\ [](tk_calls = 1 /\ tk_err = NoError => tk_row = 1)
    /\ [][AdvanceReturns => tk_row' = tk_row + 1 \/ tk_column' > tk_column]_vars
    /\ <>(tk_pc = "done")
    /\ [](tk_client = "direct" /\ tk_pc = "done" /\ tk_calls > 0
              /\ tk_err.exc # "ValueError"
            => tk_err.exc = "RuntimeError" /\ tk_row = Len(tk_input))

=============================================================================
